---- MODULE Spec2Model ----
(***************************************************************************)
(* A model of the crimeguardpro Flask application: the document store      *)
(* (users, cases, officer_firs, evidence, notifications, GridFS blobs),    *)
(* the JWT token service and the request handlers of the blueprints        *)
(* auth, case, citizen, officer and admin and of app.py's admin_api.       *)
(* Every handler is one action: its guard and its effect follow the code   *)
(* of the handler top to bottom, and the response it returns is recorded   *)
(* in the variable resp.                                                   *)
(***************************************************************************)
EXTENDS Integers, Sequences, FiniteSets, TLC

(***************************************************************************)
(* Bounds of the model.                                                    *)
(***************************************************************************)
MaxUsers == 3
MaxCases == 1
MaxFirs == 1
MaxAlerts == 1
MaxEvidence == 2
MaxBlobs == 3
MaxTime == 2

\* timedelta(days=7), in units of one week.
TokenLifetime == 1

Roles == {"citizen", "officer", "admin"}

\* A field a document or a JSON body does not hold.
Absent == "absent"

\* os.getenv("SECRET_KEY", "default_secret_key"): one key for the process.
SECRET_KEY == "default_secret_key"

(***************************************************************************)
(* The store, the tokens clients hold, the clock and the last response.    *)
(***************************************************************************)
VARIABLES users, cases, officer_firs, notifications, evidence, fs, nextId, tokens, now, resp,
          document, sanitized, inflight

vars == <<users, cases, officer_firs, notifications, evidence, fs, nextId, tokens, now, resp,
          document, sanitized, inflight>>

store == <<users, cases, officer_firs, notifications>>

(***************************************************************************)
(* Collections: a function from the ids of the stored documents.           *)
(***************************************************************************)
\* insert_one gives the document its _id.
insert_one(col, id, doc) ==
    [x \in (DOMAIN col) \union {id} |-> IF x = id THEN [doc EXCEPT !._id = id] ELSE col[x]]

delete_one(col, id) == [x \in (DOMAIN col) \ {id} |-> col[x]]

\* {"$set": updates}: the fields the update holds replace the document's.
set_fields(doc, updates) ==
    [k \in DOMAIN doc |-> IF k \in DOMAIN updates /\ updates[k] # Absent THEN updates[k] ELSE doc[k]]

update_one(col, id, updates) ==
    IF id \in DOMAIN col THEN [col EXCEPT ![id] = set_fields(col[id], updates)] ELSE col

\* str(ObjectId): the id as the string a token or a JSON body holds.
str(id) == ToString(id)

\* ObjectId(s): the id a string denotes; 0 is an id of no stored document.
ObjectId(s) ==
    IF \E n \in 1..MaxUsers : str(n) = s THEN CHOOSE n \in 1..MaxUsers : str(n) = s ELSE 0

\* What stands for a path segment that is not the text of an ObjectId:
\* ObjectId(...) raises InvalidId for it.
InvalidId == ObjectId("not-an-id")

\* str.lower() on the e-mail addresses of the model.
lower(e) == CASE e = "A@x" -> "a@x" [] OTHER -> e

\* werkzeug's generate_password_hash / check_password_hash.
generate_password_hash(p) == CASE p = "p1" -> "h1" [] p = "p2" -> "h2" [] OTHER -> "h0"

check_password_hash(h, p) == h = generate_password_hash(p)

(***************************************************************************)
(* Tokens.  The Authorization header of a request is modelled by the token *)
(* it carries; NoHeader is a request without a Bearer header and           *)
(* ForgedToken a token signed with another key.                            *)
(***************************************************************************)
NoHeader == [user_id |-> "", email |-> "", role |-> "", exp |-> 0, key |-> "none"]

ForgedToken == [user_id |-> "1", email |-> "a@x", role |-> "admin", exp |-> 99, key |-> "forged"]

\* verify_token's None.
None == [user_id |-> "", email |-> "", role |-> "", exp |-> 0, key |-> "None"]

\* A token service that leaves the role claim at its default.
create_token_default_role(user) ==
    [user_id |-> user._id,
     email |-> user.email,
     role |-> "citizen",
     exp |-> now + TokenLifetime,
     key |-> SECRET_KEY]

\* create_token(user): the claims user_id, email, role and exp, signed.  The
\* _id of the user it is given is a string already, which str() leaves as is.
create_token(user) ==
    [user_id |-> user._id,
     email |-> user.email,
     role |-> IF user.role = Absent THEN "citizen" ELSE user.role,
     exp |-> now + TokenLifetime,
     key |-> SECRET_KEY]

\* jwt.decode: InvalidTokenError on a bad signature, ExpiredSignatureError
\* once exp <= now; both are caught and None is returned.
verify_token(hdr) ==
    IF hdr.key = "none" THEN None
    ELSE IF hdr.key # SECRET_KEY THEN None
    ELSE IF hdr.exp <= now THEN None
    ELSE hdr

\* jwt.decode(token, key, algorithms=["HS256"]): the payload, or the error it
\* raises: InvalidTokenError on a bad signature, ExpiredSignatureError once
\* exp <= now.
jwt_decode(token, key) ==
    IF token.key # key THEN [payload |-> None, raised |-> "InvalidTokenError"]
    ELSE IF token.exp <= now THEN [payload |-> None, raised |-> "ExpiredSignatureError"]
    ELSE [payload |-> token, raised |-> ""]

\* verify_token of app.py: both errors are caught and None is returned.
app_verify_token(hdr) ==
    IF hdr = NoHeader THEN None
    ELSE LET decoded == jwt_decode(hdr, SECRET_KEY)
         IN IF decoded.raised = "ExpiredSignatureError" THEN None
            ELSE IF decoded.raised = "InvalidTokenError" THEN None
            ELSE decoded.payload

\* A verifier of the admin routes that does not stop at an expired signature.
admin_verify_token_unexpiring(hdr) ==
    IF hdr = NoHeader THEN None
    ELSE LET decoded == jwt_decode(hdr, SECRET_KEY)
         IN IF decoded.raised = "InvalidTokenError" THEN None
            ELSE hdr

\* verify_token of routes/admin_routes.py
admin_verify_token(hdr) ==
    IF hdr = NoHeader THEN None
    ELSE LET decoded == jwt_decode(hdr, SECRET_KEY)
         IN IF decoded.raised = "ExpiredSignatureError" THEN None
            ELSE IF decoded.raised = "InvalidTokenError" THEN None
            ELSE decoded.payload

\* verify_token of routes/case_routes.py
case_verify_token(hdr) ==
    IF hdr = NoHeader THEN None
    ELSE LET decoded == jwt_decode(hdr, SECRET_KEY)
         IN IF decoded.raised = "ExpiredSignatureError" THEN None
            ELSE IF decoded.raised = "InvalidTokenError" THEN None
            ELSE decoded.payload

\* verify_token of utils/common.py
common_verify_token(hdr) ==
    IF hdr = NoHeader THEN None
    ELSE LET decoded == jwt_decode(hdr, SECRET_KEY)
         IN IF decoded.raised = "ExpiredSignatureError" THEN None
            ELSE IF decoded.raised = "InvalidTokenError" THEN None
            ELSE decoded.payload

Headers == {NoHeader, ForgedToken} \union tokens

(***************************************************************************)
(* Sanitizers of outgoing documents.                                       *)
(***************************************************************************)
\* to_str_id turns every ObjectId value of a document into a string and keeps
\* every key; the documents it is applied to here hold one ObjectId, _id.
to_str_id(doc) == [doc EXCEPT !._id = str(doc._id)]

\* dict.pop("password_hash", None)
pop_password_hash(doc) == [doc EXCEPT !.password_hash = Absent]

\* serialize_doc removes password_hash and turns the ObjectId into a string.
serialize_doc(doc) == [doc EXCEPT !.password_hash = Absent, !._id = str(doc._id)]

\* A response body holds a secret when a document in it holds a password hash
\* or a plaintext password.
holds_secret(docs) == \E d \in docs : d.password_hash # Absent \/ d.password # Absent

(***************************************************************************)
(* Documents of any shape.  A value carries its Python type: a dict is a   *)
(* function from its keys, a list a sequence, and an ObjectId, a datetime  *)
(* and a string hold their text.                                           *)
(***************************************************************************)
MaxDepth == 4

Str(text) == [t |-> "str", v |-> text]

Oid(text) == [t |-> "ObjectId", v |-> text]

Datetime(text) == [t |-> "datetime", v |-> text]

Dict(items) == [t |-> "dict", v |-> items]

List(items) == [t |-> "list", v |-> items]

NoneValue == [t |-> "None", v |-> ""]

\* `not doc`: None and the empty dict are falsy.
falsy(value) ==
    \/ value.t = "None"
    \/ value.t \in {"dict", "list"} /\ DOMAIN value.v = {}

\* dict.pop(key): the dict without the key.
pop(items, key) == [k \in (DOMAIN items) \ {key} |-> items[k]]

RECURSIVE to_str_id_rec(_)
\* to_str_id of models/__init__.py on a document of any shape: an ObjectId
\* becomes a string, a dict is converted in turn, and of a list the dicts and
\* the ObjectIds are converted and every other item is kept.
to_str_id_rec(d) ==
    IF falsy(d) THEN NoneValue
    ELSE Dict([k \in DOMAIN d.v |->
                 LET v == d.v[k]
                 IN IF v.t = "ObjectId" THEN Str(v.v)
                    ELSE IF v.t = "list" THEN
                         List([i \in DOMAIN v.v |->
                                 IF v.v[i].t = "dict" THEN to_str_id_rec(v.v[i])
                                 ELSE IF v.v[i].t = "ObjectId" THEN Str(v.v[i].v)
                                 ELSE v.v[i]])
                    ELSE IF v.t = "dict" THEN to_str_id_rec(v)
                    ELSE v])

RECURSIVE serialize_doc_rec(_)
\* serialize_doc of routes/admin_routes.py on a document of any shape:
\* password_hash is popped from the dict, then the values are converted as
\* to_str_id converts them, a datetime becoming its ISO string.
serialize_doc_rec(d) ==
    IF falsy(d) THEN NoneValue
    ELSE LET items == IF "password_hash" \in DOMAIN d.v THEN pop(d.v, "password_hash") ELSE d.v
         IN Dict([k \in DOMAIN items |->
                    LET v == items[k]
                    IN IF v.t = "ObjectId" THEN Str(v.v)
                       ELSE IF v.t = "datetime" THEN Str(v.v)
                       ELSE IF v.t = "list" THEN
                            List([i \in DOMAIN v.v |->
                                    IF v.v[i].t = "dict" THEN serialize_doc_rec(v.v[i])
                                    ELSE IF v.v[i].t = "ObjectId" THEN Str(v.v[i].v)
                                    ELSE IF v.v[i].t = "datetime" THEN Str(v.v[i].v)
                                    ELSE v.v[i]])
                       ELSE IF v.t = "dict" THEN serialize_doc_rec(v)
                       ELSE v])

RECURSIVE depth(_)
\* The nesting depth of a value: 0 for a scalar.
depth(value) ==
    IF value.t \notin {"dict", "list"} THEN 0
    ELSE IF DOMAIN value.v = {} THEN 1
    ELSE LET deepest == CHOOSE k \in DOMAIN value.v :
                            \A j \in DOMAIN value.v : depth(value.v[j]) <= depth(value.v[k])
         IN 1 + depth(value.v[deepest])

\* What a sanitizer returned: its name and its result.
NoOutput == [by |-> "", result |-> NoneValue]

\* The documents a nesting starts from: a user document, a document with a
\* creation time, a document that holds a password_hash and nothing else, and
\* the empty document.
Seeds ==
    {Dict([_id |-> Oid("1"), password_hash |-> Str("h1")]),
     Dict([password_hash |-> Str("h1")]),
     Dict([_id |-> Oid("1"), created_at |-> Datetime("d1")]),
     Dict(<<>>)}

\* A stored document is read: document is None until then.
find_document ==
    /\ document = NoneValue
    /\ sanitized = NoOutput
    /\ document' \in Seeds
    /\ UNCHANGED <<users, cases, officer_firs, notifications, evidence, fs, nextId, tokens, now, resp, sanitized, inflight>>

\* The value is nested in a dict, alone or beside a password_hash.
nest_in_dict ==
    /\ document # NoneValue
    /\ sanitized = NoOutput
    /\ depth(document) < MaxDepth
    /\ document' \in {Dict([owner |-> document]), Dict([owner |-> document, password_hash |-> Str("h2")])}
    /\ UNCHANGED <<users, cases, officer_firs, notifications, evidence, fs, nextId, tokens, now, resp, sanitized, inflight>>

\* The value is nested in a list, alone or after an ObjectId.
nest_in_list ==
    /\ document # NoneValue
    /\ sanitized = NoOutput
    /\ depth(document) < MaxDepth
    /\ document' \in {List(<<document>>), List(<<Oid("2"), document>>)}
    /\ UNCHANGED <<users, cases, officer_firs, notifications, evidence, fs, nextId, tokens, now, resp, sanitized, inflight>>

\* serialize_doc(document) is called with a document or None.
apply_serialize_doc ==
    /\ document.t \in {"dict", "None"}
    /\ sanitized = NoOutput
    /\ sanitized' = [by |-> "serialize_doc", result |-> serialize_doc_rec(document)]
    /\ UNCHANGED <<users, cases, officer_firs, notifications, evidence, fs, nextId, tokens, now, resp, document, inflight>>

\* to_str_id(document) is called with a document or None.
apply_to_str_id ==
    /\ document.t \in {"dict", "None"}
    /\ sanitized = NoOutput
    /\ sanitized' = [by |-> "to_str_id", result |-> to_str_id_rec(document)]
    /\ UNCHANGED <<users, cases, officer_firs, notifications, evidence, fs, nextId, tokens, now, resp, document, inflight>>

(***************************************************************************)
(* Responses.                                                              *)
(***************************************************************************)
Response(ep, hdr, id, status) ==
    [ep |-> ep, hdr |-> hdr, id |-> id, status |-> status,
     secret |-> FALSE, cases |-> {}, firs |-> {}, token |-> NoHeader, user |-> 0, fields |-> <<>>,
     files |-> <<>>, uploaded_files |-> <<>>, errors |-> <<>>, unhandled |-> FALSE,
     body |-> <<>>]

NoResponse == Response("", NoHeader, 0, 0)

\* inflight holds the request of a handler that has read and checked and has
\* not yet written: handlers run in threads of their own, so other requests
\* are served between the two.
NoRequest == [ep |-> "", hdr |-> NoHeader, id |-> 0, status |-> Absent]

Init ==
    /\ users = <<>>
    /\ cases = <<>>
    /\ officer_firs = <<>>
    /\ notifications = <<>>
    /\ evidence = <<>>
    /\ fs = {}
    /\ nextId = [users |-> 1, cases |-> 1, officer_firs |-> 1, notifications |-> 1,
                 evidence |-> 1, fs |-> 1]
    /\ tokens = {}
    /\ now = 0
    /\ resp = NoResponse
    /\ document = NoneValue
    /\ sanitized = NoOutput
    /\ inflight = NoRequest

\* The server is between two requests: no response is waiting for its client.
Idle == resp = NoResponse

\* The response is sent to the client that made the request.
Deliver ==
    /\ resp # NoResponse
    /\ resp' = NoResponse
    /\ UNCHANGED <<users, cases, officer_firs, notifications, evidence, fs, nextId, tokens, now, document, sanitized, inflight>>

\* The clock advances.
Tick ==
    /\ Idle
    /\ now < MaxTime
    /\ now' = now + 1
    /\ UNCHANGED <<users, cases, officer_firs, notifications, evidence, fs, nextId, tokens, resp, document, sanitized, inflight>>

(***************************************************************************)
(* models/user_model.py                                                    *)
(***************************************************************************)
\* A user document: the fields of it the handlers read or write.
UserDoc(email, role, password_hash) ==
    [_id |-> 0, email |-> email, role |-> role, password_hash |-> password_hash, password |-> Absent]

\* users_col.find_one(query): the first stored document that matches.
find_user(ids) == IF ids = {} THEN 0 ELSE CHOOSE u \in ids : \A v \in ids : u <= v

email_is(e) == find_user({u \in DOMAIN users : users[u].email = e})

email_role_is(e, r) == find_user({u \in DOMAIN users : users[u].email = e /\ users[u].role = r})

\* create_user: the e-mail is looked up and stored in lower case.
email_registered(email) == email_is(lower(email)) # 0

new_user_doc(email, password, role) == UserDoc(lower(email), role, generate_password_hash(password))

\* users_col.find_one({"_id": u, "role": role}) finds a document.
has_role(u, role) == u \in DOMAIN users /\ users[u].role = role

\* get_user_by_id: the document or None (0).
get_user_by_id(user_id) == IF user_id \in DOMAIN users THEN user_id ELSE 0

(***************************************************************************)
(* routes/auth_routes.py                                                   *)
(***************************************************************************)
Emails == {"a@x", "A@x", "b@x"}

required == <<"first_name", "last_name", "email", "phone", "password">>

\* The registration bodies of the model: a field is a value, "" or Absent.
FullRegData == [first_name : {"F"}, last_name : {"L"}, email : Emails, phone : {"1"}, password : {"p1"}]

RegData ==
    FullRegData \union
    {[first_name |-> Absent, last_name |-> "L", email |-> "a@x", phone |-> "1", password |-> ""],
     [first_name |-> "F", last_name |-> "", email |-> "a@x", phone |-> Absent, password |-> "p1"],
     [first_name |-> "F", last_name |-> "L", email |-> "", phone |-> "1", password |-> "p1"]}

\* [field for field in required if field not in data or not data[field]]
missing_fields(data) ==
    SelectSeq(required, LAMBDA f : data[f] = Absent \/ data[f] = "")

\* handle_registration(data, role): POST /api/register/<role>
handle_registration(data, role) ==
    LET missing == missing_fields(data)
        id == nextId.users
        doc == [new_user_doc(data.email, data.password, role) EXCEPT !._id = id]
        user == pop_password_hash(to_str_id(doc))
        token == create_token(user)
        r == [Response("register_" \o role, NoHeader, 0, 0)
                 EXCEPT !.body = [i \in 1..Len(required) |-> data[required[i]]]]
    IN IF missing # <<>> THEN
            /\ resp' = [r EXCEPT !.status = 400, !.fields = missing]
            /\ UNCHANGED <<users, nextId, tokens>>
       ELSE IF email_registered(data.email) THEN
            /\ resp' = [r EXCEPT !.status = 400]
            /\ UNCHANGED <<users, nextId, tokens>>
       ELSE
            /\ id <= MaxUsers
            /\ users' = insert_one(users, id, doc)
            /\ nextId' = [nextId EXCEPT !.users = id + 1]
            /\ tokens' = tokens \union {token}
            /\ resp' = [r EXCEPT !.status = 201, !.user = id, !.token = token,
                                 !.secret = holds_secret({user}),
                                 !.fields = <<data.email, data.password>>]

register ==
    /\ Idle
    /\ \E data \in RegData, role \in Roles :
        /\ handle_registration(data, role)
        /\ UNCHANGED <<cases, officer_firs, notifications, evidence, fs, now, document, sanitized, inflight>>

LoginData ==
    [email : {"a@x", "A@x", "c@x", Absent}, password : {"p1", "p2"}, role : {"citizen", "officer"}]
    \union {[email |-> "a@x", password |-> Absent, role |-> "citizen"],
            [email |-> "a@x", password |-> "p1", role |-> Absent]}

\* The status login answers the body with, in the order the code decides it.
login_status(data) ==
    LET id == email_role_is(data.email, data.role)
    IN IF data.email \in {Absent, ""} \/ data.password \in {Absent, ""} \/ data.role \in {Absent, ""}
       THEN 400
       ELSE IF id = 0 THEN 404
       \* user["password_hash"] raises KeyError
       ELSE IF users[id].password_hash = Absent THEN 500
       ELSE IF ~check_password_hash(users[id].password_hash, data.password) THEN 401
       ELSE 200

\* login: POST /api/login.  The e-mail is looked up as it was sent.
login ==
    /\ Idle
    /\ \E data \in LoginData :
        LET r == [Response("login", NoHeader, 0, 0)
                     EXCEPT !.fields = <<data.email, data.password, data.role>>]
            id == email_role_is(data.email, data.role)
            user == pop_password_hash([users[id] EXCEPT !._id = str(id)])
            token == create_token(user)
        IN /\ IF login_status(data) # 200 THEN
                   resp' = [r EXCEPT !.status = login_status(data)] /\ UNCHANGED tokens
              ELSE
                   /\ tokens' = tokens \union {token}
                   /\ resp' = [r EXCEPT !.status = 200, !.user = id, !.token = token,
                                        !.secret = holds_secret({user})]
           /\ UNCHANGED <<users, cases, officer_firs, notifications, evidence, fs, nextId, now, document, sanitized, inflight>>

UserIds == 1..MaxUsers

\* get_profile: GET /api/profile/<user_id>
get_profile ==
    /\ Idle
    /\ \E hdr \in Headers, user_id \in UserIds :
        LET r == Response("get_profile", hdr, user_id, 0)
            payload == verify_token(hdr)
            id == get_user_by_id(user_id)
        IN /\ resp' = IF payload = None THEN [r EXCEPT !.status = 401]
                      ELSE IF payload.user_id # str(user_id) /\ payload.role # "admin"
                           THEN [r EXCEPT !.status = 403]
                      ELSE IF id = 0 THEN [r EXCEPT !.status = 404]
                      ELSE [r EXCEPT !.status = 200, !.user = id,
                                     !.secret = holds_secret({pop_password_hash(to_str_id(users[id]))})]
           /\ UNCHANGED <<users, cases, officer_firs, notifications, evidence, fs, nextId, tokens, now, document, sanitized, inflight>>

\* get_current_user: GET /api/me (no session is ever written by the code)
get_current_user ==
    /\ Idle
    /\ \E hdr \in Headers :
        LET r == Response("get_current_user", hdr, 0, 0)
            payload == verify_token(hdr)
            id == email_role_is(payload.email, payload.role)
        IN /\ resp' = IF payload = None THEN [r EXCEPT !.status = 401]
                      ELSE IF id = 0 THEN [r EXCEPT !.status = 404]
                      ELSE [r EXCEPT !.status = 200, !.user = id,
                                     !.secret = holds_secret({pop_password_hash(users[id])})]
           /\ UNCHANGED <<users, cases, officer_firs, notifications, evidence, fs, nextId, tokens, now, document, sanitized, inflight>>

(***************************************************************************)
(* routes/citizen_routes.py: the profile routes                            *)
(***************************************************************************)
\* get_citizen_profile: GET /api/citizen/<citizen_id>
get_citizen_profile ==
    /\ Idle
    /\ \E hdr \in Headers, citizen_id \in UserIds :
        LET r == Response("get_citizen_profile", hdr, citizen_id, 0)
            id == get_user_by_id(citizen_id)
        IN /\ resp' = IF id = 0 \/ users[id].role # "citizen" THEN [r EXCEPT !.status = 404]
                      ELSE [r EXCEPT !.status = 200, !.user = id,
                                     !.secret = holds_secret({pop_password_hash(to_str_id(users[id]))})]
           /\ UNCHANGED <<users, cases, officer_firs, notifications, evidence, fs, nextId, tokens, now, document, sanitized, inflight>>

\* The JSON bodies of a profile update: any field of the document may be sent.
NoUpdate == [email |-> Absent, role |-> Absent, password_hash |-> Absent, password |-> Absent]

ProfileData == {NoUpdate, [NoUpdate EXCEPT !.role = "admin"]}

\* models.user_model.update_user: find_one_and_update, the new document or None.
update_user(user_id, updates) == update_one(users, user_id, updates)

\* update_citizen_profile: PUT /api/citizen/<citizen_id>
update_citizen_profile ==
    /\ Idle
    /\ \E hdr \in Headers, citizen_id \in UserIds, data \in ProfileData :
        LET r == Response("update_citizen_profile", hdr, citizen_id, 200)
            updated == update_user(citizen_id, data)
        IN /\ users' = updated
           /\ resp' = IF citizen_id \in DOMAIN updated
                      THEN [r EXCEPT !.user = citizen_id,
                                     !.secret = holds_secret({to_str_id(updated[citizen_id])})]
                      ELSE r
           /\ UNCHANGED <<cases, officer_firs, notifications, evidence, fs, nextId, tokens, now, document, sanitized, inflight>>

(***************************************************************************)
(* routes/officer_routes.py: the profile routes                            *)
(***************************************************************************)
\* get_logged_officer: GET /api/officer/me
get_logged_officer ==
    /\ Idle
    /\ \E hdr \in Headers :
        LET r == Response("get_logged_officer", hdr, 0, 0)
            payload == verify_token(hdr)
        IN /\ resp' = IF payload = None THEN [r EXCEPT !.status = 401]
                      ELSE IF ObjectId(payload.user_id) \notin DOMAIN users THEN [r EXCEPT !.status = 404]
                      ELSE [r EXCEPT !.status = 200, !.user = ObjectId(payload.user_id)]
           /\ UNCHANGED <<users, cases, officer_firs, notifications, evidence, fs, nextId, tokens, now, document, sanitized, inflight>>

\* The JSON bodies of PUT /api/officer/me: allowed and other fields.
OfficerProfileData ==
    {[NoUpdate EXCEPT !.role = "admin"], [NoUpdate EXCEPT !.password = "p1"],
     [NoUpdate EXCEPT !.email = ""]}

\* update_data of update_officer_profile: the allowed non-empty fields, the
\* password replaced by its hash.
officer_update_data(data) ==
    [NoUpdate EXCEPT !.email = IF data.email = "" THEN Absent ELSE data.email,
                     !.password_hash = IF data.password \in {Absent, ""} THEN Absent
                                       ELSE generate_password_hash(data.password)]

\* update_officer_profile: PUT /api/officer/me
update_officer_profile ==
    /\ Idle
    /\ \E hdr \in Headers, data \in OfficerProfileData :
        LET r == Response("update_officer_profile", hdr, 0, 0)
            payload == verify_token(hdr)
            officer_id == ObjectId(payload.user_id)
            update_data == officer_update_data(data)
            updated == update_one(users, officer_id, update_data)
        IN /\ IF payload = None THEN
                   resp' = [r EXCEPT !.status = 401] /\ UNCHANGED users
              ELSE IF officer_id \notin DOMAIN users THEN
                   resp' = [r EXCEPT !.status = 404] /\ UNCHANGED users
              ELSE IF update_data = NoUpdate THEN
                   resp' = [r EXCEPT !.status = 400] /\ UNCHANGED users
              ELSE
                   /\ users' = updated
                   /\ resp' = [r EXCEPT !.status = 200, !.user = officer_id,
                                        !.secret = holds_secret({to_str_id(pop_password_hash(updated[officer_id]))})]
           /\ UNCHANGED <<cases, officer_firs, notifications, evidence, fs, nextId, tokens, now, document, sanitized, inflight>>

(***************************************************************************)
(* routes/admin_routes.py: the blueprint admin_bp, user management         *)
(***************************************************************************)
\* A gate that asks for a valid token and not for its role.
require_any_role(hdr) == verify_token(hdr)

\* A gate that asks the users collection, not the token, for the role.
require_stored_admin(hdr) ==
    LET user == admin_verify_token(hdr)
    IN IF user = None \/ ~has_role(ObjectId(user.user_id), "admin") THEN None ELSE user

\* require_admin: the claims of a valid admin token, or None.
require_admin(hdr) ==
    LET user == admin_verify_token(hdr)
    IN IF user = None \/ user.role # "admin" THEN None ELSE user

\* get_users: GET /api/admin/users
get_users ==
    /\ Idle
    /\ \E hdr \in Headers :
        LET r == Response("admin.get_users", hdr, 0, 0)
        IN /\ resp' = IF require_admin(hdr) = None THEN [r EXCEPT !.status = 401]
                      ELSE [r EXCEPT !.status = 200,
                                     !.secret = holds_secret({serialize_doc(users[u]) : u \in DOMAIN users})]
           /\ UNCHANGED <<users, cases, officer_firs, notifications, evidence, fs, nextId, tokens, now, document, sanitized, inflight>>

\* get_user: GET /api/admin/users/<user_id>
get_user ==
    /\ Idle
    /\ \E hdr \in Headers, user_id \in UserIds :
        LET r == Response("admin.get_user", hdr, user_id, 0)
        IN /\ resp' = IF require_admin(hdr) = None THEN [r EXCEPT !.status = 401]
                      ELSE IF user_id \notin DOMAIN users THEN [r EXCEPT !.status = 404]
                      ELSE [r EXCEPT !.status = 200, !.user = user_id,
                                     !.secret = holds_secret({serialize_doc(users[user_id])})]
           /\ UNCHANGED <<users, cases, officer_firs, notifications, evidence, fs, nextId, tokens, now, document, sanitized, inflight>>

\* The JSON bodies of POST /api/admin/users.
AdminUserData ==
    {[email |-> "c@x", role |-> "officer", password |-> "p1"],
     [email |-> "c@x", role |-> "officer", password |-> Absent],
     [email |-> "", role |-> "officer", password |-> "p1"],
     [email |-> "A@x", role |-> "officer", password |-> "p1"]}

\* The endpoints whose rule is POST /api/admin/users, in the order app.py
\* registers their blueprints: admin_bp, then admin_api.
PostAdminUsersEndpoints == <<"admin.create_user", "admin_api.admin_create_user">>

\* A router that matches the rule added last.
match_last(endpoints) == endpoints[Len(endpoints)]

\* The URL map matches the rule that was added first.
match(endpoints) == Head(endpoints)

\* admin_required of app.py: the claims of a valid admin token, or None.
admin_required(hdr) ==
    LET token_data == app_verify_token(hdr)
    IN IF token_data = None \/ token_data.role # "admin" THEN None ELSE token_data

\* admin_create_user of app.py, the handler of admin_api for the rule: the
\* body is inserted as it was sent and returned with its _id.
admin_create_user(hdr, data) ==
    LET r == [Response("admin_api.admin_create_user", hdr, 0, 0)
                 EXCEPT !.fields = <<data.email, data.role, data.password>>]
        id == nextId.users
        stored == [UserDoc(data.email, data.role, Absent) EXCEPT !.password = data.password]
    IN IF admin_required(hdr) = None THEN
            resp' = [r EXCEPT !.status = 403] /\ UNCHANGED <<users, nextId>>
       ELSE IF data.email = Absent \/ data.role = Absent THEN
            resp' = [r EXCEPT !.status = 400] /\ UNCHANGED <<users, nextId>>
       ELSE
            /\ id <= MaxUsers
            /\ users' = insert_one(users, id, stored)
            /\ nextId' = [nextId EXCEPT !.users = id + 1]
            /\ resp' = [r EXCEPT !.status = 201, !.user = id,
                                 !.secret = holds_secret({[stored EXCEPT !._id = str(id)]})]

\* create_user: POST /api/admin/users, by the handler the rule is matched to
adminbp_create_user ==
    /\ Idle
    /\ \E hdr \in Headers, data \in AdminUserData :
        LET r == [Response("admin.create_user", hdr, 0, 0)
                     EXCEPT !.fields = <<data.email, data.role, data.password>>]
            id == nextId.users
            new_user == UserDoc(data.email, data.role, generate_password_hash(data.password))
        IN /\ IF match(PostAdminUsersEndpoints) # "admin.create_user" THEN
                   admin_create_user(hdr, data)
              ELSE IF require_admin(hdr) = None THEN
                   resp' = [r EXCEPT !.status = 401] /\ UNCHANGED <<users, nextId>>
              ELSE IF data.email \in {Absent, ""} \/ data.role \in {Absent, ""} THEN
                   resp' = [r EXCEPT !.status = 400] /\ UNCHANGED <<users, nextId>>
              ELSE IF data.password \in {Absent, ""} THEN
                   resp' = [r EXCEPT !.status = 400] /\ UNCHANGED <<users, nextId>>
              ELSE
                   /\ id <= MaxUsers
                   /\ users' = insert_one(users, id, new_user)
                   /\ nextId' = [nextId EXCEPT !.users = id + 1]
                   /\ resp' = [r EXCEPT !.status = 201, !.user = id,
                                        !.secret = holds_secret({pop_password_hash([new_user EXCEPT !._id = id])})]
           /\ UNCHANGED <<cases, officer_firs, notifications, evidence, fs, tokens, now, document, sanitized, inflight>>

\* The requests PUT /api/admin/users/<user_id>: the id of the path and the
\* JSON body.
AdminUpdateRequests ==
    {[user_id |-> 1, data |-> [NoUpdate EXCEPT !.role = "officer"]],
     [user_id |-> 2, data |-> NoUpdate],
     [user_id |-> 2, data |-> [NoUpdate EXCEPT !.email = ""]],
     [user_id |-> MaxUsers, data |-> [NoUpdate EXCEPT !.role = "officer"]]}

\* update_fields of update_user: the allowed fields that are not "".
admin_update_fields(data) ==
    [NoUpdate EXCEPT !.email = IF data.email = "" THEN Absent ELSE data.email,
                     !.role = IF data.role = "" THEN Absent ELSE data.role,
                     !.password_hash = IF data.password \in {Absent, ""} THEN Absent
                                       ELSE generate_password_hash(data.password)]

\* update_user: PUT /api/admin/users/<user_id>
adminbp_update_user ==
    /\ Idle
    /\ \E hdr \in Headers, req \in AdminUpdateRequests :
        LET user_id == req.user_id
            r == Response("admin.update_user", hdr, user_id, 0)
            update_fields == admin_update_fields(req.data)
            updated == update_one(users, user_id, update_fields)
        IN /\ IF require_admin(hdr) = None THEN
                   resp' = [r EXCEPT !.status = 401] /\ UNCHANGED users
              ELSE IF update_fields = NoUpdate THEN
                   resp' = [r EXCEPT !.status = 400] /\ UNCHANGED users
              ELSE
                   /\ users' = updated
                   /\ resp' = IF user_id \in DOMAIN updated
                              THEN [r EXCEPT !.status = 200, !.user = user_id,
                                             !.secret = holds_secret({serialize_doc(updated[user_id])})]
                              ELSE [r EXCEPT !.status = 200]
           /\ UNCHANGED <<cases, officer_firs, notifications, evidence, fs, nextId, tokens, now, document, sanitized, inflight>>

\* The ids in the path of a user deletion.
DeletedUserIds == {2, MaxUsers}

\* delete_user: DELETE /api/admin/users/<user_id>
adminbp_delete_user ==
    /\ Idle
    /\ \E hdr \in Headers, user_id \in DeletedUserIds :
        LET r == Response("admin.delete_user", hdr, user_id, 0)
        IN /\ IF require_admin(hdr) = None THEN
                   resp' = [r EXCEPT !.status = 401] /\ UNCHANGED users
              ELSE IF user_id \notin DOMAIN users THEN
                   resp' = [r EXCEPT !.status = 404] /\ UNCHANGED users
              ELSE
                   /\ users' = delete_one(users, user_id)
                   /\ resp' = [r EXCEPT !.status = 200]
           /\ UNCHANGED <<cases, officer_firs, notifications, evidence, fs, nextId, tokens, now, document, sanitized, inflight>>

(***************************************************************************)
(* models/case_model.py and routes/case_routes.py                          *)
(***************************************************************************)
\* A case document.  citizen_id is an ObjectId (0: the document holds none);
\* assigned_to and assigned_officer hold what a JSON body gave: a string.
CaseDoc(citizen_id, title, description, status) ==
    [_id |-> 0, citizen_id |-> citizen_id, title |-> title, description |-> description, status |-> status,
     assigned_to |-> Absent, assigned_officer |-> Absent]

CaseIds == 1..MaxCases

\* The JSON bodies of a case creation.
CaseData ==
    {[title |-> "T", description |-> "D", category |-> "C", location |-> "L"],
     [title |-> "", description |-> "D", category |-> "C", location |-> "L"]}

\* all([title, category, location, description])
all_case_fields(data) ==
    \A f \in {"title", "category", "location", "description"} : data[f] \notin {Absent, ""}

\* create_new_case: POST /api/cases
create_new_case ==
    /\ Idle
    /\ \E hdr \in Headers, data \in CaseData :
        LET r == Response("create_new_case", hdr, 0, 0)
            payload == case_verify_token(hdr)
            user_id == ObjectId(payload.user_id)
            id == nextId.cases
            case_doc == CaseDoc(user_id, data.title, data.description, "Pending")
        IN /\ IF payload = None THEN
                   resp' = [r EXCEPT !.status = 401] /\ UNCHANGED <<cases, nextId>>
              ELSE IF ~all_case_fields(data) THEN
                   resp' = [r EXCEPT !.status = 400] /\ UNCHANGED <<cases, nextId>>
              ELSE IF ~has_role(user_id, "citizen") THEN
                   resp' = [r EXCEPT !.status = 404] /\ UNCHANGED <<cases, nextId>>
              ELSE
                   /\ id <= MaxCases
                   /\ cases' = insert_one(cases, id, case_doc)
                   /\ nextId' = [nextId EXCEPT !.cases = id + 1]
                   /\ resp' = [r EXCEPT !.status = 201, !.id = id, !.cases = {id}]
           /\ UNCHANGED <<users, officer_firs, notifications, evidence, fs, tokens, now, document, sanitized, inflight>>

\* get_cases: GET /api/cases
get_cases ==
    /\ Idle
    /\ \E hdr \in Headers :
        /\ resp' = [Response("get_cases", hdr, 0, 200) EXCEPT !.cases = DOMAIN cases]
        /\ UNCHANGED <<users, cases, officer_firs, notifications, evidence, fs, nextId, tokens, now, document, sanitized, inflight>>

\* get_case: GET /api/cases/<case_id>
get_case ==
    /\ Idle
    /\ \E hdr \in Headers, case_id \in CaseIds :
        LET r == Response("get_case", hdr, case_id, 0)
        IN /\ resp' = IF case_id \notin DOMAIN cases THEN [r EXCEPT !.status = 404]
                      ELSE [r EXCEPT !.status = 200, !.cases = {case_id}]
           /\ UNCHANGED <<users, cases, officer_firs, notifications, evidence, fs, nextId, tokens, now, document, sanitized, inflight>>

\* cases_col.find({"citizen_id": ObjectId(citizen_id)})
get_cases_by_citizen(citizen_id) == {c \in DOMAIN cases : cases[c].citizen_id = citizen_id}

\* get_citizen_cases: GET /api/cases/citizen/<citizen_id>
get_citizen_cases ==
    /\ Idle
    /\ \E hdr \in Headers, citizen_id \in UserIds :
        /\ resp' = [Response("get_citizen_cases", hdr, citizen_id, 200)
                        EXCEPT !.cases = get_cases_by_citizen(citizen_id)]
        /\ UNCHANGED <<users, cases, officer_firs, notifications, evidence, fs, nextId, tokens, now, document, sanitized, inflight>>

NoCaseUpdate ==
    [citizen_id |-> Absent, title |-> Absent, description |-> Absent, status |-> Absent,
     assigned_to |-> Absent, assigned_officer |-> Absent]

\* The JSON bodies of PUT /api/cases/<case_id>: any field may be sent.
CaseUpdates == {NoCaseUpdate, [NoCaseUpdate EXCEPT !.status = "Resolved"], [NoCaseUpdate EXCEPT !.assigned_to = "1"]}

\* update_case_route: PUT /api/cases/<case_id>
update_case_route ==
    /\ Idle
    /\ \E hdr \in Headers, case_id \in CaseIds, updates \in CaseUpdates :
        LET r == Response("update_case_route", hdr, case_id, 0)
        IN /\ IF updates = NoCaseUpdate THEN
                   resp' = [r EXCEPT !.status = 400] /\ UNCHANGED cases
              ELSE IF case_id \notin DOMAIN cases THEN
                   resp' = [r EXCEPT !.status = 404] /\ UNCHANGED cases
              ELSE
                   /\ cases' = update_one(cases, case_id, updates)
                   /\ resp' = [r EXCEPT !.status = 200, !.cases = {case_id}]
           /\ UNCHANGED <<users, officer_firs, notifications, evidence, fs, nextId, tokens, now, document, sanitized, inflight>>

\* delete_case_route: DELETE /api/cases/<case_id>
delete_case_route ==
    /\ Idle
    /\ \E hdr \in Headers, case_id \in CaseIds :
        LET r == Response("delete_case_route", hdr, case_id, 0)
        IN /\ IF case_id \notin DOMAIN cases THEN
                   resp' = [r EXCEPT !.status = 404] /\ UNCHANGED cases
              ELSE
                   /\ cases' = delete_one(cases, case_id)
                   /\ resp' = [r EXCEPT !.status = 200]
           /\ UNCHANGED <<users, officer_firs, notifications, evidence, fs, nextId, tokens, now, document, sanitized, inflight>>

(***************************************************************************)
(* routes/citizen_routes.py: the complaint routes                          *)
(***************************************************************************)
\* The JSON bodies of a complaint: every required key, or one missing.
ComplaintData ==
    {[title |-> "T", description |-> "D", category |-> "C", location |-> "L"],
     [title |-> "T", description |-> Absent, category |-> "C", location |-> "L"]}

\* file_complaint: POST /api/citizen/<citizen_id>/cases
file_complaint ==
    /\ Idle
    /\ \E hdr \in Headers, citizen_id \in UserIds, data \in ComplaintData :
        LET r == Response("file_complaint", hdr, citizen_id, 0)
            id == nextId.cases
        IN /\ IF \E k \in DOMAIN data : data[k] = Absent THEN
                   resp' = [r EXCEPT !.status = 400] /\ UNCHANGED <<cases, nextId>>
              ELSE
                   /\ id <= MaxCases
                   /\ cases' = insert_one(cases, id, CaseDoc(citizen_id, data.title, data.description, "Pending"))
                   /\ nextId' = [nextId EXCEPT !.cases = id + 1]
                   /\ resp' = [r EXCEPT !.status = 201, !.cases = {id}]
           /\ UNCHANGED <<users, officer_firs, notifications, evidence, fs, tokens, now, document, sanitized, inflight>>

\* view_complaints: GET /api/citizen/<citizen_id>/cases
view_complaints ==
    /\ Idle
    /\ \E hdr \in Headers, citizen_id \in UserIds :
        /\ resp' = [Response("view_complaints", hdr, citizen_id, 200)
                        EXCEPT !.cases = get_cases_by_citizen(citizen_id)]
        /\ UNCHANGED <<users, cases, officer_firs, notifications, evidence, fs, nextId, tokens, now, document, sanitized, inflight>>

(***************************************************************************)
(* routes/officer_routes.py: the case routes                               *)
(***************************************************************************)
\* officer_cases: GET /api/officer/cases.  The query matches assigned_to
\* against an ObjectId and assigned_name against the token's name; the
\* documents hold a string in assigned_to and no assigned_name.
officer_cases ==
    /\ Idle
    /\ \E hdr \in Headers :
        LET r == Response("officer_cases", hdr, 0, 0)
        IN /\ resp' = IF verify_token(hdr) = None THEN [r EXCEPT !.status = 401]
                      ELSE [r EXCEPT !.status = 200]
           /\ UNCHANGED <<users, cases, officer_firs, notifications, evidence, fs, nextId, tokens, now, document, sanitized, inflight>>

\* The security check of the officer's case routes:
\* assigned and str(assigned) != officer_id
assigned_to_other(case, officer_id) ==
    case.assigned_to \notin {Absent, ""} /\ case.assigned_to # officer_id

\* view_case_details: GET /api/officer/cases/<case_id>
view_case_details ==
    /\ Idle
    /\ \E hdr \in Headers, case_id \in CaseIds :
        LET r == Response("view_case_details", hdr, case_id, 0)
            payload == verify_token(hdr)
        IN /\ resp' = IF payload = None THEN [r EXCEPT !.status = 401]
                      ELSE IF case_id \notin DOMAIN cases THEN [r EXCEPT !.status = 404]
                      ELSE IF assigned_to_other(cases[case_id], payload.user_id)
                           THEN [r EXCEPT !.status = 403]
                      ELSE [r EXCEPT !.status = 200, !.cases = {case_id}]
           /\ UNCHANGED <<users, cases, officer_firs, notifications, evidence, fs, nextId, tokens, now, document, sanitized, inflight>>

\* The JSON bodies of PUT /api/officer/cases/<case_id>/update.
OfficerCaseData == {NoCaseUpdate, [NoCaseUpdate EXCEPT !.status = "Closed"], [NoCaseUpdate EXCEPT !.assigned_to = "2"]}

\* update_data: the fields of the body among status, priority, officer_notes.
officer_case_update(data) == [NoCaseUpdate EXCEPT !.status = data.status]

\* update_case_status: PUT /api/officer/cases/<case_id>/update
update_case_status ==
    /\ Idle
    /\ \E hdr \in Headers, case_id \in CaseIds, data \in OfficerCaseData :
        LET r == Response("update_case_status", hdr, case_id, 0)
            payload == verify_token(hdr)
            update_data == officer_case_update(data)
        IN /\ IF payload = None THEN
                   resp' = [r EXCEPT !.status = 401] /\ UNCHANGED cases
              ELSE IF update_data = NoCaseUpdate THEN
                   resp' = [r EXCEPT !.status = 400] /\ UNCHANGED cases
              ELSE IF case_id \notin DOMAIN cases THEN
                   resp' = [r EXCEPT !.status = 404] /\ UNCHANGED cases
              ELSE IF assigned_to_other(cases[case_id], payload.user_id) THEN
                   resp' = [r EXCEPT !.status = 403] /\ UNCHANGED cases
              ELSE
                   /\ cases' = update_one(cases, case_id, update_data)
                   /\ resp' = [r EXCEPT !.status = 200, !.cases = {case_id}]
           /\ UNCHANGED <<users, officer_firs, notifications, evidence, fs, nextId, tokens, now, document, sanitized, inflight>>

\* update_case_status up to its security check: find_one and the comparison
\* of assigned_to.  A request that passes is in flight until its write.
update_case_status_find_one ==
    /\ Idle
    /\ inflight = NoRequest
    /\ \E hdr \in Headers, case_id \in CaseIds, data \in OfficerCaseData :
        LET r == Response("update_case_status", hdr, case_id, 0)
            payload == verify_token(hdr)
            update_data == officer_case_update(data)
        IN IF payload = None THEN
                resp' = [r EXCEPT !.status = 401] /\ UNCHANGED inflight
           ELSE IF update_data = NoCaseUpdate THEN
                resp' = [r EXCEPT !.status = 400] /\ UNCHANGED inflight
           ELSE IF case_id \notin DOMAIN cases THEN
                resp' = [r EXCEPT !.status = 404] /\ UNCHANGED inflight
           ELSE IF assigned_to_other(cases[case_id], payload.user_id) THEN
                resp' = [r EXCEPT !.status = 403] /\ UNCHANGED inflight
           ELSE
                /\ inflight' = [ep |-> "update_case_status", hdr |-> hdr, id |-> case_id,
                                status |-> data.status]
                /\ UNCHANGED resp
    /\ UNCHANGED <<users, cases, officer_firs, notifications, evidence, fs, nextId, tokens, now, document, sanitized>>

\* update_case_status from its write on: update_one on the case as it is
\* now, then the answer.
update_case_status_update_one ==
    /\ Idle
    /\ inflight.ep = "update_case_status"
    /\ cases' = update_one(cases, inflight.id, [NoCaseUpdate EXCEPT !.status = inflight.status])
    /\ resp' = [Response("update_case_status", inflight.hdr, inflight.id, 200)
                   EXCEPT !.cases = {inflight.id} \cap DOMAIN cases]
    /\ inflight' = NoRequest
    /\ UNCHANGED <<users, officer_firs, notifications, evidence, fs, nextId, tokens, now, document, sanitized>>

(***************************************************************************)
(* routes/admin_routes.py: the blueprint admin_bp, case management         *)
(***************************************************************************)
\* get_all_cases: GET /api/admin/cases
get_all_cases ==
    /\ Idle
    /\ \E hdr \in Headers :
        LET r == Response("admin.get_all_cases", hdr, 0, 0)
        IN /\ resp' = IF require_admin(hdr) = None THEN [r EXCEPT !.status = 401]
                      ELSE [r EXCEPT !.status = 200, !.cases = DOMAIN cases]
           /\ UNCHANGED <<users, cases, officer_firs, notifications, evidence, fs, nextId, tokens, now, document, sanitized, inflight>>

\* get_case: GET /api/admin/cases/<case_id>
adminbp_get_case ==
    /\ Idle
    /\ \E hdr \in Headers, case_id \in CaseIds :
        LET r == Response("admin.get_case", hdr, case_id, 0)
        IN /\ resp' = IF require_admin(hdr) = None THEN [r EXCEPT !.status = 401]
                      ELSE IF case_id \notin DOMAIN cases THEN [r EXCEPT !.status = 404]
                      ELSE [r EXCEPT !.status = 200, !.cases = {case_id}]
           /\ UNCHANGED <<users, cases, officer_firs, notifications, evidence, fs, nextId, tokens, now, document, sanitized, inflight>>

\* The JSON bodies of POST /api/admin/cases.
AdminCaseData ==
    {[title |-> "T", description |-> "D", category |-> "C", location |-> "L", assigned_officer |-> Absent],
     [title |-> "T", description |-> "D", category |-> "C", location |-> "L", assigned_officer |-> "1"],
     [title |-> "T", description |-> "", category |-> "C", location |-> "L", assigned_officer |-> Absent]}

\* create_case: POST /api/admin/cases
adminbp_create_case ==
    /\ Idle
    /\ \E hdr \in Headers, data \in AdminCaseData :
        LET r == Response("admin.create_case", hdr, 0, 0)
            id == nextId.cases
            new_case == [CaseDoc(0, data.title, data.description, "Pending") EXCEPT
                            !.assigned_officer = IF data.assigned_officer = Absent THEN ""
                                                 ELSE data.assigned_officer]
        IN /\ IF require_admin(hdr) = None THEN
                   resp' = [r EXCEPT !.status = 401] /\ UNCHANGED <<cases, nextId>>
              ELSE IF ~all_case_fields(data) THEN
                   resp' = [r EXCEPT !.status = 400] /\ UNCHANGED <<cases, nextId>>
              ELSE
                   /\ id <= MaxCases
                   /\ cases' = insert_one(cases, id, new_case)
                   /\ nextId' = [nextId EXCEPT !.cases = id + 1]
                   /\ resp' = [r EXCEPT !.status = 201]
           /\ UNCHANGED <<users, officer_firs, notifications, evidence, fs, tokens, now, document, sanitized, inflight>>

\* The JSON bodies of PUT /api/admin/cases/<case_id>.
AdminCaseUpdates ==
    {[NoCaseUpdate EXCEPT !.status = ""], [NoCaseUpdate EXCEPT !.assigned_officer = "1"],
     [NoCaseUpdate EXCEPT !.assigned_to = "1"]}

\* update_fields of update_case: the allowed fields whose value is not "".
admin_case_update_fields(data) ==
    [NoCaseUpdate EXCEPT !.title = IF data.title = "" THEN Absent ELSE data.title,
                         !.description = IF data.description = "" THEN Absent ELSE data.description,
                         !.status = IF data.status = "" THEN Absent ELSE data.status,
                         !.assigned_officer = IF data.assigned_officer = "" THEN Absent
                                              ELSE data.assigned_officer]

\* update_case: PUT /api/admin/cases/<case_id>
adminbp_update_case ==
    /\ Idle
    /\ \E hdr \in Headers, case_id \in CaseIds, data \in AdminCaseUpdates :
        LET r == Response("admin.update_case", hdr, case_id, 0)
            update_fields == admin_case_update_fields(data)
        IN /\ IF require_admin(hdr) = None THEN
                   resp' = [r EXCEPT !.status = 401] /\ UNCHANGED cases
              ELSE IF update_fields = NoCaseUpdate THEN
                   resp' = [r EXCEPT !.status = 400] /\ UNCHANGED cases
              ELSE IF case_id \notin DOMAIN cases THEN
                   resp' = [r EXCEPT !.status = 404] /\ UNCHANGED cases
              ELSE
                   /\ cases' = update_one(cases, case_id, update_fields)
                   /\ resp' = [r EXCEPT !.status = 200, !.cases = {case_id}]
           /\ UNCHANGED <<users, officer_firs, notifications, evidence, fs, nextId, tokens, now, document, sanitized, inflight>>

\* delete_case: DELETE /api/admin/cases/<case_id>
adminbp_delete_case ==
    /\ Idle
    /\ \E hdr \in Headers, case_id \in CaseIds :
        LET r == Response("admin.delete_case", hdr, case_id, 0)
        IN /\ IF require_admin(hdr) = None THEN
                   resp' = [r EXCEPT !.status = 401] /\ UNCHANGED cases
              ELSE IF case_id \notin DOMAIN cases THEN
                   resp' = [r EXCEPT !.status = 404] /\ UNCHANGED cases
              ELSE
                   /\ cases' = delete_one(cases, case_id)
                   /\ resp' = [r EXCEPT !.status = 200]
           /\ UNCHANGED <<users, officer_firs, notifications, evidence, fs, nextId, tokens, now, document, sanitized, inflight>>

(***************************************************************************)
(* routes/officer_routes.py: alerts                                        *)
(***************************************************************************)
\* The JSON bodies of an alert: title and message, or a blank message.
AlertData == {[title |-> "T", message |-> "M"], [title |-> "T", message |-> ""]}

AlertDoc(data, sent_by) == [_id |-> 0, title |-> data.title, message |-> data.message, sent_by |-> sent_by]

\* send_alert: POST /api/officer/send_alert
send_alert ==
    /\ Idle
    /\ \E hdr \in Headers, data \in AlertData :
        LET r == Response("send_alert", hdr, 0, 0)
            payload == verify_token(hdr)
            id == nextId.notifications
        IN /\ IF payload = None THEN
                   resp' = [r EXCEPT !.status = 401] /\ UNCHANGED <<notifications, nextId>>
              ELSE IF data.title = "" \/ data.message = "" THEN
                   resp' = [r EXCEPT !.status = 400] /\ UNCHANGED <<notifications, nextId>>
              ELSE
                   /\ id <= MaxAlerts
                   /\ notifications' = insert_one(notifications, id, AlertDoc(data, payload.email))
                   /\ nextId' = [nextId EXCEPT !.notifications = id + 1]
                   /\ resp' = [r EXCEPT !.status = 201]
           /\ UNCHANGED <<users, cases, officer_firs, evidence, fs, tokens, now, document, sanitized, inflight>>

\* get_alerts: GET /api/officer/alerts
get_alerts ==
    /\ Idle
    /\ \E hdr \in Headers :
        LET r == Response("get_alerts", hdr, 0, 0)
        IN /\ resp' = IF verify_token(hdr) = None THEN [r EXCEPT !.status = 401]
                      ELSE [r EXCEPT !.status = 200]
           /\ UNCHANGED <<users, cases, officer_firs, notifications, evidence, fs, nextId, tokens, now, document, sanitized, inflight>>

(***************************************************************************)
(* routes/officer_routes.py: the FIR routes                                *)
(***************************************************************************)
FirIds == 1..MaxFirs

\* The JSON bodies of POST /api/officer/fir: the six required fields are
\* given together (title stands for them) or one is blank.
FirData ==
    {[title |-> "T", priority |-> Absent], [title |-> "", priority |-> Absent],
     [title |-> "T", priority |-> "Low"]}

\* fir_doc of create_officer_fir.
FirDoc(data, officer_id) ==
    [_id |-> 0,
     title |-> data.title,
     officer_id |-> officer_id,
     status |-> "Pending",
     priority |-> IF data.priority = Absent THEN "Normal" ELSE data.priority,
     officer_notes |-> Absent]

\* create_officer_fir: POST /api/officer/fir
create_officer_fir ==
    /\ Idle
    /\ \E hdr \in Headers, data \in FirData :
        LET r == [Response("create_officer_fir", hdr, 0, 0) EXCEPT !.body = <<data.title, data.priority>>]
            payload == verify_token(hdr)
            officer_id == payload.user_id
            id == nextId.officer_firs
        IN /\ IF payload = None THEN
                   resp' = [r EXCEPT !.status = 401] /\ UNCHANGED <<officer_firs, nextId>>
              ELSE IF ~has_role(ObjectId(officer_id), "officer") THEN
                   resp' = [r EXCEPT !.status = 404] /\ UNCHANGED <<officer_firs, nextId>>
              ELSE IF data.title \in {Absent, ""} THEN
                   resp' = [r EXCEPT !.status = 400] /\ UNCHANGED <<officer_firs, nextId>>
              ELSE
                   /\ id <= MaxFirs
                   /\ officer_firs' = insert_one(officer_firs, id, FirDoc(data, officer_id))
                   /\ nextId' = [nextId EXCEPT !.officer_firs = id + 1]
                   /\ resp' = [r EXCEPT !.status = 201, !.id = id, !.firs = {id}]
           /\ UNCHANGED <<users, cases, notifications, evidence, fs, tokens, now, document, sanitized, inflight>>

\* get_all_officer_firs: GET /api/officer/fir
get_all_officer_firs ==
    /\ Idle
    /\ \E hdr \in Headers :
        LET r == Response("get_all_officer_firs", hdr, 0, 0)
            payload == verify_token(hdr)
            officer_id == payload.user_id
        IN /\ resp' = IF payload = None THEN [r EXCEPT !.status = 401]
                      ELSE IF ObjectId(officer_id) \notin DOMAIN users THEN [r EXCEPT !.status = 404]
                      ELSE [r EXCEPT !.status = 200,
                                     !.firs = {f \in DOMAIN officer_firs :
                                                  officer_firs[f].officer_id = officer_id}]
           /\ UNCHANGED <<users, cases, officer_firs, notifications, evidence, fs, nextId, tokens, now, document, sanitized, inflight>>

\* FIR routes without an ownership rule: every caller passes.
fir_owned_by_anyone(fir, officer_id) == TRUE

\* The security check of the FIR routes: fir.get("officer_id") != officer_id
fir_owned_by(fir, officer_id) == fir.officer_id = officer_id

\* get_officer_fir: GET /api/officer/fir/<fir_id>
get_officer_fir ==
    /\ Idle
    /\ \E hdr \in Headers, fir_id \in FirIds :
        LET r == Response("get_officer_fir", hdr, fir_id, 0)
            payload == verify_token(hdr)
        IN /\ resp' = IF payload = None THEN [r EXCEPT !.status = 401]
                      ELSE IF fir_id \notin DOMAIN officer_firs THEN [r EXCEPT !.status = 404]
                      ELSE IF ~fir_owned_by(officer_firs[fir_id], payload.user_id)
                           THEN [r EXCEPT !.status = 403]
                      ELSE [r EXCEPT !.status = 200, !.firs = {fir_id}]
           /\ UNCHANGED <<users, cases, officer_firs, notifications, evidence, fs, nextId, tokens, now, document, sanitized, inflight>>

NoFirUpdate == [status |-> Absent, priority |-> Absent, officer_notes |-> Absent, officer_id |-> Absent]

\* The JSON bodies of a FIR update: allowed fields, a blank one, another field.
FirUpdates ==
    {NoFirUpdate, [NoFirUpdate EXCEPT !.status = "Closed"], [NoFirUpdate EXCEPT !.status = ""],
     [NoFirUpdate EXCEPT !.officer_id = "2"],
     [NoFirUpdate EXCEPT !.priority = "Low", !.officer_id = "2"]}

fir_allowed_fields == <<"status", "priority", "officer_notes">>

\* The allowed fields a body holds with a value that is not "".
fir_fields_given(data) == SelectSeq(fir_allowed_fields, LAMBDA k : data[k] \notin {Absent, ""})

\* An update that takes every field of the body.
fir_update_any_field(data) == [k \in DOMAIN data |-> IF data[k] = "" THEN Absent ELSE data[k]]

\* update_fields: {k: v for k, v in data.items() if k in allowed_fields and v}
fir_update_fields(data) ==
    [k \in {"status", "priority", "officer_notes"} |-> IF data[k] = "" THEN Absent ELSE data[k]]

\* update_officer_fir: PUT /api/officer/fir/<fir_id>
update_officer_fir ==
    /\ Idle
    /\ \E hdr \in Headers, fir_id \in FirIds \union {InvalidId}, data \in FirUpdates :
        LET r == [Response("update_officer_fir", hdr, fir_id, 0)
                     EXCEPT !.fields = fir_fields_given(data), !.body = <<data.officer_id>>]
            payload == verify_token(hdr)
        IN /\ IF payload = None THEN
                   resp' = [r EXCEPT !.status = 401] /\ UNCHANGED officer_firs
              ELSE IF fir_id = InvalidId THEN
                   resp' = [r EXCEPT !.status = 400] /\ UNCHANGED officer_firs
              ELSE IF fir_id \notin DOMAIN officer_firs THEN
                   resp' = [r EXCEPT !.status = 404] /\ UNCHANGED officer_firs
              ELSE IF ~fir_owned_by(officer_firs[fir_id], payload.user_id) THEN
                   resp' = [r EXCEPT !.status = 403] /\ UNCHANGED officer_firs
              ELSE IF fir_fields_given(data) = <<>> THEN
                   resp' = [r EXCEPT !.status = 400] /\ UNCHANGED officer_firs
              ELSE
                   /\ officer_firs' = update_one(officer_firs, fir_id, fir_update_fields(data))
                   /\ resp' = [r EXCEPT !.status = 200, !.firs = {fir_id}]
           /\ UNCHANGED <<users, cases, notifications, evidence, fs, nextId, tokens, now, document, sanitized, inflight>>

\* delete_officer_fir: DELETE /api/officer/fir/<fir_id>
delete_officer_fir ==
    /\ Idle
    /\ \E hdr \in Headers, fir_id \in FirIds \union {InvalidId} :
        LET r == Response("delete_officer_fir", hdr, fir_id, 0)
            payload == verify_token(hdr)
        IN /\ IF payload = None THEN
                   resp' = [r EXCEPT !.status = 401] /\ UNCHANGED officer_firs
              \* ObjectId(fir_id) is outside any try: InvalidId leaves the handler
              ELSE IF fir_id = InvalidId THEN
                   resp' = [r EXCEPT !.status = 500, !.unhandled = TRUE] /\ UNCHANGED officer_firs
              ELSE IF fir_id \notin DOMAIN officer_firs THEN
                   resp' = [r EXCEPT !.status = 404] /\ UNCHANGED officer_firs
              ELSE IF ~fir_owned_by(officer_firs[fir_id], payload.user_id) THEN
                   resp' = [r EXCEPT !.status = 403] /\ UNCHANGED officer_firs
              ELSE
                   /\ officer_firs' = delete_one(officer_firs, fir_id)
                   /\ resp' = [r EXCEPT !.status = 200]
           /\ UNCHANGED <<users, cases, notifications, evidence, fs, nextId, tokens, now, document, sanitized, inflight>>

(***************************************************************************)
(* routes/officer_routes.py: the evidence routes                           *)
(***************************************************************************)
\* 10 * 1024 * 1024 bytes, in MiB.
MaxFileSize == 10

EvidenceIds == 1..MaxEvidence

\* A part of the form field "files": its filename and its size in MiB.
File(filename, size) == [filename |-> filename, size |-> size]

\* The uploaded batches.
FileBatches ==
    {<<>>,
     <<File("a", 1)>>, <<File("a", 10)>>, <<File("a", 11)>>, <<File("", 1)>>, <<File("", 11)>>,
     <<File("a", 11), File("b", 1)>>, <<File("a", 11), File("b", 11)>>,
     <<File("a", 11), File("b", 1), File("c", 1)>>,
     <<File("a", 1), File("b", 11), File("c", 1)>>,
     <<File("a", 1), File("b", 1), File("c", 11)>>,
     <<File("a", 1), File("", 1), File("c", 11)>>}

\* The form fields case_id and fir_id of an upload or the query of a listing
\* (0: not given).
EvidenceTargets ==
    {[case_id |-> 0, fir_id |-> 0], [case_id |-> 1, fir_id |-> 0], [case_id |-> 0, fir_id |-> 1],
     [case_id |-> 1, fir_id |-> 1]}

\* evidence_doc of upload_evidence for a stored file.
EvidenceDoc(file_id, target, officer_id, size) ==
    [_id |-> 0, file_id |-> file_id, case_id |-> target.case_id, fir_id |-> target.fir_id,
     officer_id |-> officer_id, file_size |-> size]

\* What the loop over the files has built so far: the two lists of the
\* response, the blob store, the evidence collection and the next ids.
\* `raising` lists the filenames for which evidence_col.insert_one raises.
Uploading(raising) ==
    [uploaded_files |-> <<>>, errors |-> <<>>, fs |-> fs, evidence |-> evidence, nextId |-> nextId,
     raising |-> raising]

\* A store that takes the blob back when the record cannot be inserted.
insert_raised_rolled_back(file, acc) ==
    [acc EXCEPT !.errors = Append(@, [filename |-> file.filename, error |-> "insert_one raised"])]

\* The step of the loop for a file whose insert_one raises: fs.put has stored
\* the blob, the except clause adds the entry of errors.
insert_raised(file, acc) ==
    [acc EXCEPT !.fs = @ \union {acc.nextId.fs},
                !.nextId = [@ EXCEPT !.fs = acc.nextId.fs + 1],
                !.errors = Append(@, [filename |-> file.filename, error |-> "insert_one raised"])]


\* The step of the loop for a file that passed the size check: fs.put, then
\* evidence_col.insert_one, then the entry of uploaded_files.
store_file(file, target, officer_id, acc) ==
    LET file_id == acc.nextId.fs
        evidence_id == acc.nextId.evidence
    IN [acc EXCEPT !.fs = @ \union {file_id},
                   !.evidence = insert_one(@, evidence_id, EvidenceDoc(file_id, target, officer_id, file.size)),
                   !.nextId = [@ EXCEPT !.fs = file_id + 1, !.evidence = evidence_id + 1],
                   !.uploaded_files = Append(@, [evidence_id |-> evidence_id, file_id |-> file_id,
                                                 filename |-> file.filename, size |-> file.size])]

\* A refusal that also drops what the batch had uploaded before.
refuse_batch(file, acc) ==
    [acc EXCEPT !.errors = Append(@, [filename |-> file.filename, error |-> "File too large"]),
                !.uploaded_files = <<>>]

\* The step of the loop for a file that is too large: an entry of errors.
refuse_file(file, acc) ==
    [acc EXCEPT !.errors = Append(@, [filename |-> file.filename, error |-> "File too large"])]

\* The loop of upload_evidence over the files: a part without a filename is
\* passed over, a file that is too large becomes an entry of errors, any
\* other file is stored.
RECURSIVE upload_files(_, _, _, _)
upload_files(files, target, officer_id, acc) ==
    IF files = <<>> THEN acc
    ELSE IF Head(files).filename = "" THEN upload_files(Tail(files), target, officer_id, acc)
    ELSE IF Head(files).size > MaxFileSize THEN
         upload_files(Tail(files), target, officer_id, refuse_file(Head(files), acc))
    ELSE IF \E i \in DOMAIN acc.raising : acc.raising[i] = Head(files).filename THEN
         upload_files(Tail(files), target, officer_id, insert_raised(Head(files), acc))
    ELSE upload_files(Tail(files), target, officer_id, store_file(Head(files), target, officer_id, acc))

\* A status that is 201 only when no file was refused.
upload_status_all(uploaded_files, errors) == IF uploaded_files = <<>> \/ errors # <<>> THEN 400 ELSE 201

\* The status after the loop.
upload_status(uploaded_files, errors) == IF uploaded_files = <<>> THEN 400 ELSE 201

\* upload_evidence for one request and one behaviour of the store.
upload(hdr, target, files, raising) ==
    LET r == Response("upload_evidence", hdr, 0, 0)
        payload == verify_token(hdr)
        officer_id == payload.user_id
        done == upload_files(files, target, officer_id, Uploading(raising))
    IN IF payload = None THEN
            resp' = [r EXCEPT !.status = 401] /\ UNCHANGED <<evidence, fs, nextId>>
       ELSE IF target.case_id = 0 /\ target.fir_id = 0 THEN
            resp' = [r EXCEPT !.status = 400] /\ UNCHANGED <<evidence, fs, nextId>>
       ELSE IF files = <<>> THEN
            resp' = [r EXCEPT !.status = 400] /\ UNCHANGED <<evidence, fs, nextId>>
       ELSE IF target.case_id # 0 /\ target.case_id \notin DOMAIN cases THEN
            resp' = [r EXCEPT !.status = 404] /\ UNCHANGED <<evidence, fs, nextId>>
       ELSE IF target.fir_id # 0 /\ target.fir_id \notin DOMAIN officer_firs THEN
            resp' = [r EXCEPT !.status = 404] /\ UNCHANGED <<evidence, fs, nextId>>
       ELSE IF target.fir_id # 0 /\ ~fir_owned_by(officer_firs[target.fir_id], officer_id) THEN
            resp' = [r EXCEPT !.status = 403] /\ UNCHANGED <<evidence, fs, nextId>>
       ELSE
            /\ done.nextId.evidence - 1 <= MaxEvidence
            /\ done.nextId.fs - 1 <= MaxBlobs
            /\ fs' = done.fs
            /\ evidence' = done.evidence
            /\ nextId' = done.nextId
            /\ resp' = [r EXCEPT !.status = upload_status(done.uploaded_files, done.errors),
                                 !.files = files,
                                 !.fields = raising,
                                 !.uploaded_files = done.uploaded_files,
                                 !.errors = done.errors]

\* upload_evidence: POST /api/officer/evidence, with a store that works
upload_evidence ==
    /\ Idle
    /\ \E hdr \in Headers, target \in EvidenceTargets, files \in FileBatches :
           upload(hdr, target, files, <<>>)
    /\ UNCHANGED <<users, cases, officer_firs, notifications, tokens, now, document, sanitized, inflight>>

\* upload_evidence: POST /api/officer/evidence, with a store whose
\* insert_one raises for some of the files
upload_evidence_raising ==
    /\ Idle
    /\ \E hdr \in Headers, target \in EvidenceTargets, files \in FileBatches,
          raising \in {<<"a">>, <<"b">>, <<"a", "c">>} :
           upload(hdr, target, files, raising)
    /\ UNCHANGED <<users, cases, officer_firs, notifications, tokens, now, document, sanitized, inflight>>

\* get_evidence: GET /api/officer/evidence
get_evidence ==
    /\ Idle
    /\ \E hdr \in Headers, target \in EvidenceTargets :
        LET r == Response("get_evidence", hdr, 0, 0)
        IN /\ resp' = IF verify_token(hdr) = None THEN [r EXCEPT !.status = 401]
                      ELSE IF target.case_id = 0 /\ target.fir_id = 0 THEN [r EXCEPT !.status = 400]
                      ELSE [r EXCEPT !.status = 200]
           /\ UNCHANGED <<users, cases, officer_firs, notifications, evidence, fs, nextId, tokens, now, document, sanitized, inflight>>

\* The access check of download_evidence for a caller who did not upload it.
download_denied(ev, officer_id) ==
    IF ev.case_id # 0
    THEN ev.case_id \notin DOMAIN cases \/ cases[ev.case_id].assigned_to # officer_id
    ELSE ev.fir_id # 0

\* download_evidence: GET /api/officer/evidence/<evidence_id>/file
download_evidence ==
    /\ Idle
    /\ \E hdr \in Headers, evidence_id \in EvidenceIds :
        LET r == Response("download_evidence", hdr, evidence_id, 0)
            payload == verify_token(hdr)
            ev == evidence[evidence_id]
        IN /\ resp' = IF payload = None THEN [r EXCEPT !.status = 401]
                      ELSE IF evidence_id \notin DOMAIN evidence THEN [r EXCEPT !.status = 404]
                      ELSE IF ev.officer_id # payload.user_id /\ download_denied(ev, payload.user_id)
                           THEN [r EXCEPT !.status = 403]
                      ELSE IF ev.file_id \notin fs THEN [r EXCEPT !.status = 500]
                      ELSE [r EXCEPT !.status = 200]
           /\ UNCHANGED <<users, cases, officer_firs, notifications, evidence, fs, nextId, tokens, now, document, sanitized, inflight>>

\* delete_evidence: DELETE /api/officer/evidence/<evidence_id>
delete_evidence ==
    /\ Idle
    /\ \E hdr \in Headers, evidence_id \in EvidenceIds :
        LET r == Response("delete_evidence", hdr, evidence_id, 0)
            payload == verify_token(hdr)
        IN /\ IF payload = None THEN
                   resp' = [r EXCEPT !.status = 401] /\ UNCHANGED <<evidence, fs>>
              ELSE IF evidence_id \notin DOMAIN evidence THEN
                   resp' = [r EXCEPT !.status = 404] /\ UNCHANGED <<evidence, fs>>
              ELSE IF evidence[evidence_id].officer_id # payload.user_id THEN
                   resp' = [r EXCEPT !.status = 403] /\ UNCHANGED <<evidence, fs>>
              ELSE
                   /\ fs' = fs \ {evidence[evidence_id].file_id}
                   /\ evidence' = delete_one(evidence, evidence_id)
                   /\ resp' = [r EXCEPT !.status = 200]
           /\ UNCHANGED <<users, cases, officer_firs, notifications, nextId, tokens, now, document, sanitized, inflight>>

\* delete_evidence up to fs.delete: the record is read and checked and the
\* blob is deleted; the record is still stored.
delete_evidence_fs_delete ==
    /\ Idle
    /\ inflight = NoRequest
    /\ \E hdr \in Headers, evidence_id \in EvidenceIds :
        LET r == Response("delete_evidence", hdr, evidence_id, 0)
            payload == verify_token(hdr)
        IN IF payload = None THEN
                resp' = [r EXCEPT !.status = 401] /\ UNCHANGED <<fs, inflight>>
           ELSE IF evidence_id \notin DOMAIN evidence THEN
                resp' = [r EXCEPT !.status = 404] /\ UNCHANGED <<fs, inflight>>
           ELSE IF evidence[evidence_id].officer_id # payload.user_id THEN
                resp' = [r EXCEPT !.status = 403] /\ UNCHANGED <<fs, inflight>>
           ELSE
                /\ fs' = fs \ {evidence[evidence_id].file_id}
                /\ inflight' = [ep |-> "delete_evidence", hdr |-> hdr, id |-> evidence_id,
                                status |-> Absent]
                /\ UNCHANGED resp
    /\ UNCHANGED <<users, cases, officer_firs, notifications, evidence, nextId, tokens, now, document, sanitized>>

\* delete_evidence from delete_one on: the record is deleted, then the answer.
delete_evidence_delete_one ==
    /\ Idle
    /\ inflight.ep = "delete_evidence"
    /\ evidence' = delete_one(evidence, inflight.id)
    /\ resp' = Response("delete_evidence", inflight.hdr, inflight.id, 200)
    /\ inflight' = NoRequest
    /\ UNCHANGED <<users, cases, officer_firs, notifications, fs, nextId, tokens, now, document, sanitized>>

(***************************************************************************)
(* routes/admin_routes.py: the blueprint admin_bp, statistics, FIRs and    *)
(* alerts                                                                  *)
(***************************************************************************)
\* admin_stats: GET /api/admin/stats
adminbp_admin_stats ==
    /\ Idle
    /\ \E hdr \in Headers :
        LET r == Response("admin.admin_stats", hdr, 0, 0)
        IN /\ resp' = IF require_admin(hdr) = None THEN [r EXCEPT !.status = 401]
                      ELSE [r EXCEPT !.status = 200]
           /\ UNCHANGED <<users, cases, officer_firs, notifications, evidence, fs, nextId, tokens, now, document, sanitized, inflight>>

\* get_all_firs: GET /api/admin/firs
get_all_firs ==
    /\ Idle
    /\ \E hdr \in Headers :
        LET r == Response("admin.get_all_firs", hdr, 0, 0)
        IN /\ resp' = IF require_admin(hdr) = None THEN [r EXCEPT !.status = 401]
                      ELSE [r EXCEPT !.status = 200, !.firs = DOMAIN officer_firs]
           /\ UNCHANGED <<users, cases, officer_firs, notifications, evidence, fs, nextId, tokens, now, document, sanitized, inflight>>

\* get_fir: GET /api/admin/firs/<fir_id>
get_fir ==
    /\ Idle
    /\ \E hdr \in Headers, fir_id \in FirIds :
        LET r == Response("admin.get_fir", hdr, fir_id, 0)
        IN /\ resp' = IF require_admin(hdr) = None THEN [r EXCEPT !.status = 401]
                      ELSE IF fir_id \notin DOMAIN officer_firs THEN [r EXCEPT !.status = 404]
                      ELSE [r EXCEPT !.status = 200, !.firs = {fir_id}]
           /\ UNCHANGED <<users, cases, officer_firs, notifications, evidence, fs, nextId, tokens, now, document, sanitized, inflight>>

\* The JSON bodies of PUT /api/admin/firs/<fir_id>.
AdminFirUpdates ==
    {[NoFirUpdate EXCEPT !.status = "Closed"], [NoFirUpdate EXCEPT !.status = ""],
     [NoFirUpdate EXCEPT !.priority = "Low", !.officer_id = "2"]}

\* update_fir: PUT /api/admin/firs/<fir_id>
update_fir ==
    /\ Idle
    /\ \E hdr \in Headers, fir_id \in FirIds, data \in AdminFirUpdates :
        LET r == [Response("admin.update_fir", hdr, fir_id, 0)
                     EXCEPT !.fields = fir_fields_given(data), !.body = <<data.officer_id>>]
        IN /\ IF require_admin(hdr) = None THEN
                   resp' = [r EXCEPT !.status = 401] /\ UNCHANGED officer_firs
              ELSE IF fir_fields_given(data) = <<>> THEN
                   resp' = [r EXCEPT !.status = 400] /\ UNCHANGED officer_firs
              ELSE IF fir_id \notin DOMAIN officer_firs THEN
                   resp' = [r EXCEPT !.status = 404] /\ UNCHANGED officer_firs
              ELSE
                   /\ officer_firs' = update_one(officer_firs, fir_id, fir_update_fields(data))
                   /\ resp' = [r EXCEPT !.status = 200, !.firs = {fir_id}]
           /\ UNCHANGED <<users, cases, notifications, evidence, fs, nextId, tokens, now, document, sanitized, inflight>>

\* delete_fir: DELETE /api/admin/firs/<fir_id>
delete_fir ==
    /\ Idle
    /\ \E hdr \in Headers, fir_id \in FirIds :
        LET r == Response("admin.delete_fir", hdr, fir_id, 0)
        IN /\ IF require_admin(hdr) = None THEN
                   resp' = [r EXCEPT !.status = 401] /\ UNCHANGED officer_firs
              ELSE IF fir_id \notin DOMAIN officer_firs THEN
                   resp' = [r EXCEPT !.status = 404] /\ UNCHANGED officer_firs
              ELSE
                   /\ officer_firs' = delete_one(officer_firs, fir_id)
                   /\ resp' = [r EXCEPT !.status = 200]
           /\ UNCHANGED <<users, cases, notifications, evidence, fs, nextId, tokens, now, document, sanitized, inflight>>

\* get_all_alerts: GET /api/admin/alerts
get_all_alerts ==
    /\ Idle
    /\ \E hdr \in Headers :
        LET r == Response("admin.get_all_alerts", hdr, 0, 0)
        IN /\ resp' = IF require_admin(hdr) = None THEN [r EXCEPT !.status = 401]
                      ELSE [r EXCEPT !.status = 200]
           /\ UNCHANGED <<users, cases, officer_firs, notifications, evidence, fs, nextId, tokens, now, document, sanitized, inflight>>

\* send_alert: POST /api/admin/alerts
adminbp_send_alert ==
    /\ Idle
    /\ \E hdr \in Headers, data \in AlertData :
        LET r == Response("admin.send_alert", hdr, 0, 0)
            admin == require_admin(hdr)
            id == nextId.notifications
        IN /\ IF admin = None THEN
                   resp' = [r EXCEPT !.status = 401] /\ UNCHANGED <<notifications, nextId>>
              ELSE IF data.title = "" \/ data.message = "" THEN
                   resp' = [r EXCEPT !.status = 400] /\ UNCHANGED <<notifications, nextId>>
              ELSE
                   /\ id <= MaxAlerts
                   /\ notifications' = insert_one(notifications, id, AlertDoc(data, admin.email))
                   /\ nextId' = [nextId EXCEPT !.notifications = id + 1]
                   /\ resp' = [r EXCEPT !.status = 201]
           /\ UNCHANGED <<users, cases, officer_firs, evidence, fs, tokens, now, document, sanitized, inflight>>

(***************************************************************************)
(* The case routes.                                                        *)
(***************************************************************************)
NextCases ==
    \/ Deliver
    \/ register
    \/ login
    \/ adminbp_create_user
    \/ create_new_case
    \/ get_cases
    \/ get_case
    \/ get_citizen_cases
    \/ update_case_route
    \/ delete_case_route
    \/ file_complaint
    \/ view_complaints
    \/ officer_cases
    \/ view_case_details
    \/ update_case_status
    \/ get_all_cases
    \/ adminbp_get_case
    \/ adminbp_create_case
    \/ adminbp_update_case
    \/ adminbp_delete_case

SpecCases == Init /\ [][NextCases]_vars

(***************************************************************************)
(* The user and identity routes.                                           *)
(***************************************************************************)
NextUsers ==
    \/ Deliver
    \/ register
    \/ get_profile
    \/ get_current_user
    \/ get_citizen_profile
    \/ update_citizen_profile
    \/ get_logged_officer
    \/ update_officer_profile
    \/ get_users
    \/ get_user
    \/ adminbp_create_user
    \/ adminbp_update_user
    \/ adminbp_delete_user

SpecUsers == Init /\ [][NextUsers]_vars

(***************************************************************************)
(* The evidence routes, with the routes that create their callers, cases   *)
(* and FIRs.                                                               *)
(***************************************************************************)
NextEvidence ==
    \/ Deliver
    \/ register
    \/ file_complaint
    \/ create_officer_fir
    \/ upload_evidence
    \/ get_evidence
    \/ download_evidence
    \/ delete_evidence

SpecEvidence == Init /\ [][NextEvidence]_vars

\* The evidence routes with a store whose insert_one may raise.
NextStoreFaults ==
    \/ Deliver
    \/ register
    \/ file_complaint
    \/ upload_evidence_raising
    \/ download_evidence
    \/ delete_evidence

SpecStoreFaults == Init /\ [][NextStoreFaults]_vars

\* The case routes with the requests that are served while update_case_status
\* is between its check and its write.
NextCaseThreads ==
    \/ Deliver
    \/ register
    \/ file_complaint
    \/ update_case_route
    \/ delete_case_route
    \/ update_case_status_find_one
    \/ update_case_status_update_one

SpecCaseThreads == Init /\ [][NextCaseThreads]_vars

\* The evidence routes with the requests that are served while
\* delete_evidence is between fs.delete and delete_one.
NextEvidenceThreads ==
    \/ Deliver
    \/ register
    \/ file_complaint
    \/ upload_evidence
    \/ download_evidence
    \/ delete_evidence
    \/ delete_evidence_fs_delete
    \/ delete_evidence_delete_one

SpecEvidenceThreads == Init /\ [][NextEvidenceThreads]_vars

(***************************************************************************)
(* The FIR routes of the officers and of the admins.                       *)
(***************************************************************************)
NextFir ==
    \/ Deliver
    \/ register
    \/ create_officer_fir
    \/ get_all_officer_firs
    \/ get_officer_fir
    \/ update_officer_fir
    \/ delete_officer_fir
    \/ get_all_firs
    \/ get_fir
    \/ update_fir
    \/ delete_fir

SpecFir == Init /\ [][NextFir]_vars

(***************************************************************************)
(* The alert routes, with the clock.                                       *)
(***************************************************************************)
NextAlerts ==
    \/ Deliver
    \/ Tick
    \/ register
    \/ send_alert
    \/ get_alerts
    \/ get_all_alerts
    \/ adminbp_send_alert

SpecAlerts == Init /\ [][NextAlerts]_vars

(***************************************************************************)
(* The routes of the blueprint admin_bp.  app.py registers its blueprint   *)
(* admin_api under the same rules after admin_bp, so the dispatcher gives  *)
(* every /api/admin request to the handlers of admin_bp.                   *)
(***************************************************************************)
NextAdmin ==
    \/ Deliver
    \/ register
    \/ create_officer_fir
    \/ get_users
    \/ get_user
    \/ adminbp_create_user
    \/ adminbp_update_user
    \/ adminbp_delete_user
    \/ get_all_cases
    \/ adminbp_get_case
    \/ adminbp_create_case
    \/ adminbp_update_case
    \/ adminbp_delete_case
    \/ adminbp_admin_stats
    \/ get_all_firs
    \/ get_fir
    \/ update_fir
    \/ delete_fir
    \/ get_all_alerts
    \/ adminbp_send_alert

SpecAdmin == Init /\ [][NextAdmin]_vars

(***************************************************************************)
(* The identity routes, with the clock.                                    *)
(***************************************************************************)
NextAuth ==
    \/ Deliver
    \/ Tick
    \/ register
    \/ login
    \/ get_profile
    \/ get_current_user

SpecAuth == Init /\ [][NextAuth]_vars

(***************************************************************************)
(* One handler of every module that verifies a token, with the clock and   *)
(* the admin operations that delete a user or change a role.               *)
(***************************************************************************)
NextTokens ==
    \/ Deliver
    \/ Tick
    \/ register
    \/ get_profile
    \/ get_current_user
    \/ get_users
    \/ get_logged_officer
    \/ create_new_case
    \/ adminbp_update_user
    \/ adminbp_delete_user

SpecTokens == Init /\ [][NextTokens]_vars

(***************************************************************************)
(* The sanitizers, applied to documents of every nesting up to MaxDepth.   *)
(***************************************************************************)
NextSanitize ==
    \/ find_document
    \/ nest_in_dict
    \/ nest_in_list
    \/ apply_serialize_doc
    \/ apply_to_str_id

SpecSanitize == Init /\ [][NextSanitize]_vars

(***************************************************************************)
(* Claims about the user and identity routes.                              *)
(***************************************************************************)
RegisterEps == {"register_citizen", "register_officer", "register_admin"}

\* C4: no response body of any endpoint holds a user's password_hash or any
\* other stored secret.
C4_NoSecretInAnyBody == resp.secret = FALSE

\* The claims of the token a request carried, or None.
caller(r) == verify_token(r.hdr)

\* C5: a user record is changed only by a request authenticated as that user
\* or as an admin, and is deleted only by a request authenticated as an admin.
C5_UserMutatedOnlyBySelfOrAdmin ==
    [][\A u \in DOMAIN users :
          /\ u \notin DOMAIN users' => caller(resp').role = "admin"
          /\ (u \in DOMAIN users' /\ users'[u] # users[u]) =>
                 (caller(resp').role = "admin" \/ caller(resp').user_id = str(u))]_vars

\* C10: after a successful registration the returned token verifies to claims
\* whose role is the role of the registration path and whose user_id is the id
\* of the user record just created.
C10_RegistrationTokenMatchesUser ==
    (resp.ep \in RegisterEps /\ resp.status = 201) =>
        LET claims == verify_token(resp.token)
        IN /\ claims # None
           /\ resp.ep = "register_" \o claims.role
           /\ claims.user_id = str(resp.user)
           /\ resp.user = nextId.users - 1
           /\ resp.user \in DOMAIN users
           /\ users[resp.user].role = claims.role

C10_Witness ==
    /\ resp.ep = "register_officer"
    /\ resp.status = 201
    /\ verify_token(resp.token).role = "officer"
    /\ resp.user = 2

(***************************************************************************)
(* Claims about the case routes.                                           *)
(***************************************************************************)
\* The request of the response was made with a valid token of that role.
made_by(r, role) == caller(r) # None /\ caller(r).role = role

CaseReadEps == {"get_cases", "get_case", "get_citizen_cases", "view_complaints"}

\* C1: a read of cases made with the token of a citizen C returns no case
\* whose citizen_id is another citizen.
C1_CitizenReadsOnlyOwnCases ==
    (resp.ep \in CaseReadEps /\ made_by(resp, "citizen")) =>
        \A c \in resp.cases :
            ~(str(cases[c].citizen_id) # caller(resp).user_id /\ has_role(cases[c].citizen_id, "citizen"))

\* The endpoints the interface table lists with no authentication.
PublicEps == RegisterEps \union {"login"}

\* C2: a request with no token or an invalid one gets no success from an
\* endpoint that is not public and changes no collection.
C2_AnonymousIsDeniedAndChangesNothing ==
    [][(resp'.ep \notin PublicEps \union {""} /\ caller(resp') = None) =>
           (resp'.status \notin {200, 201} /\ UNCHANGED <<store, evidence, fs>>)]_vars

OfficerCaseEps == {"view_case_details", "update_case_status"}

\* The officer a case is assigned to, as the string the document holds:
\* assigned_to when it is set, else assigned_officer.
assigned(case) ==
    IF case.assigned_to \notin {Absent, ""} THEN case.assigned_to
    ELSE IF case.assigned_officer \notin {Absent, ""} THEN case.assigned_officer
    ELSE ""

\* C7: an officer's read or update of a case assigned to another officer is
\* answered 403, and 403 is answered only when the case is assigned to
\* somebody else.
C7_OfficerAccessFollowsAssignment ==
    (/\ resp.ep \in OfficerCaseEps
     /\ made_by(resp, "officer")
     /\ resp.id \in DOMAIN cases
     /\ resp.status # 400) =>
        LET a == assigned(cases[resp.id])
            me == caller(resp).user_id
        IN /\ resp.status \in {200, 403}
           /\ (\E o \in DOMAIN users : str(o) # me /\ has_role(o, "officer") /\ a = str(o))
                  => resp.status = 403
           /\ resp.status = 403 => a \notin {"", me}

(***************************************************************************)
(* Claims about the FIR, evidence and admin routes.                        *)
(***************************************************************************)
FirOwnerEps == {"get_officer_fir", "update_officer_fir", "delete_officer_fir"}

\* C3: a get, an update with an allowed non-empty field and a delete of a FIR
\* by the officer who created it succeed; by another officer they are
\* answered 403 and leave the FIR as it is.
C3_FirOwnerOnly ==
    [][(/\ resp'.ep \in FirOwnerEps
        /\ made_by(resp', "officer")
        /\ resp'.id \in DOMAIN officer_firs
        /\ has_role(ObjectId(officer_firs[resp'.id].officer_id), "officer")) =>
           IF officer_firs[resp'.id].officer_id = caller(resp').user_id
           THEN \/ resp'.status = 200
                \/ resp'.ep = "update_officer_fir" /\ resp'.fields = <<>> /\ resp'.status = 400
           ELSE resp'.status = 403 /\ UNCHANGED officer_firs]_vars

C3_Witness ==
    /\ resp.ep = "delete_officer_fir"
    /\ resp.status = 403
    /\ made_by(resp, "officer")
    /\ resp.id \in DOMAIN officer_firs
    /\ has_role(ObjectId(officer_firs[resp.id].officer_id), "officer")
    /\ officer_firs[resp.id].officer_id # caller(resp).user_id

FirEps == FirOwnerEps \union {"create_officer_fir", "get_all_officer_firs"}

EvidenceEps == {"upload_evidence", "get_evidence", "download_evidence", "delete_evidence"}

AdminEps ==
    {"admin.get_users", "admin.get_user", "admin.create_user", "admin.update_user",
     "admin.delete_user", "admin.get_all_cases", "admin.get_case", "admin.create_case",
     "admin.update_case", "admin.delete_case", "admin.admin_stats", "admin.get_all_firs",
     "admin.get_fir", "admin.update_fir", "admin.delete_fir", "admin.get_all_alerts",
     "admin.send_alert"}

\* C6: a request made with a citizen's token gets no success from a FIR, an
\* evidence or an admin endpoint and changes none of officer_firs, evidence,
\* notifications and the blob store.
C6_CitizenKeptOut ==
    [][(resp'.ep \in FirEps \union EvidenceEps \union AdminEps /\ made_by(resp', "citizen")) =>
           (/\ resp'.status \notin {200, 201}
            /\ UNCHANGED <<officer_firs, evidence, notifications, fs>>)]_vars

\* C8: a denial is answered 401 when the request carried no valid token and
\* 403 when it carried a valid one.
C8_DenialClassMatchesCause ==
    (resp.ep \notin PublicEps /\ resp.status \in {401, 403}) =>
        (resp.status = 401 <=> caller(resp) = None)

\* C9: an admin endpoint rejects every request that is not made with a valid
\* admin token and such a request changes none of users, cases, officer_firs
\* and notifications; a request with a valid admin token is not rejected.
C9_AdminEndpointsAdminOnly ==
    [][resp'.ep \in AdminEps =>
           IF made_by(resp', "admin")
           THEN resp'.status \notin {401, 403}
           ELSE resp'.status \in {401, 403} /\ UNCHANGED store]_vars

C9_Witness ==
    /\ resp.ep = "admin.update_fir"
    /\ resp.status = 401
    /\ resp.fields # <<>>
    /\ made_by(resp, "officer")
    /\ resp.id \in DOMAIN officer_firs
    /\ officer_firs[resp.id].officer_id = caller(resp).user_id

(***************************************************************************)
(* Claims about the lifetime of a token.                                   *)
(***************************************************************************)
\* The endpoints of SpecTokens that answer 401 to a token that does not verify.
TokenCheckedEps ==
    {"get_profile", "get_current_user", "admin.get_users", "get_logged_officer",
     "create_new_case", "admin.update_user", "admin.delete_user"}

\* C11: a token verified later than its exp is refused by every verify_token
\* (app, admin, officer, case, utils), which return None and never its claims,
\* and a handler that verifies it answers 401.
C11_ExpiredTokenIsRefused ==
    /\ \A t \in tokens :
           t.exp < now =>
               /\ app_verify_token(t) = None
               /\ admin_verify_token(t) = None
               /\ verify_token(t) = None
               /\ case_verify_token(t) = None
               /\ common_verify_token(t) = None
               /\ jwt_decode(t, SECRET_KEY).raised = "ExpiredSignatureError"
    /\ (resp.ep \in TokenCheckedEps /\ resp.hdr \in tokens /\ resp.hdr.exp < now) =>
           resp.status = 401

C11_Witness ==
    /\ resp.ep = "admin.get_users"
    /\ resp.hdr \in tokens
    /\ resp.hdr.role = "admin"
    /\ resp.hdr.exp < now
    /\ ObjectId(resp.hdr.user_id) \in DOMAIN users
    /\ resp.status = 401

RECURSIVE has_key(_, _)
\* The value holds the key at some depth, through dicts and lists.
has_key(value, key) ==
    IF value.t = "dict" THEN
        key \in DOMAIN value.v \/ \E k \in DOMAIN value.v : has_key(value.v[k], key)
    ELSE IF value.t = "list" THEN \E i \in DOMAIN value.v : has_key(value.v[i], key)
    ELSE FALSE

\* C13: what serialize_doc and to_str_id return holds no password_hash key at
\* any depth.
C13_SanitizedHoldsNoHash == sanitized # NoOutput => ~has_key(sanitized.result, "password_hash")

\* C14: sanitizing what a sanitizer returned returns it unchanged, for
\* serialize_doc and for to_str_id, the empty and the absent document included.
C14_SanitizeIsIdempotent ==
    /\ sanitized.by = "serialize_doc" => serialize_doc_rec(sanitized.result) = sanitized.result
    /\ sanitized.by = "to_str_id" => to_str_id_rec(sanitized.result) = sanitized.result

(***************************************************************************)
(* Claims about the users collection.                                      *)
(***************************************************************************)
\* C15: no two user records hold the same email, compared without regard to
\* case.
C15_EmailIsUnique ==
    \A u, v \in DOMAIN users : u # v => lower(users[u].email) # lower(users[v].email)

(***************************************************************************)
(* Claims about a citizen's way through login and the case routes.         *)
(***************************************************************************)
\* C16: a registered citizen logs in with the e-mail and password of the
\* registration; a case the citizen creates is Pending and holds the citizen's
\* id; a GET of a stored case returns it; a DELETE removes it; and a GET of
\* an id that is not stored, which no later case is given, returns 404.
C16_CitizenCaseLifecycle ==
    /\ (resp.ep = "register_citizen" /\ resp.status = 201) =>
           login_status([email |-> resp.fields[1], password |-> resp.fields[2],
                         role |-> "citizen"]) = 200
    /\ (/\ resp.ep = "create_new_case"
        /\ made_by(resp, "citizen")
        /\ has_role(ObjectId(caller(resp).user_id), "citizen")
        /\ resp.status # 400) =>
           /\ resp.status = 201
           /\ resp.id \in DOMAIN cases
           /\ cases[resp.id].status = "Pending"
           /\ cases[resp.id].citizen_id = ObjectId(caller(resp).user_id)
           /\ cases[resp.id].title = "T"
           /\ cases[resp.id].description = "D"
    /\ resp.ep = "get_case" =>
           IF resp.id \in DOMAIN cases
           THEN resp.status = 200 /\ resp.cases = {resp.id}
           ELSE resp.status = 404 /\ resp.cases = {}
    /\ resp.ep = "delete_case_route" =>
           resp.id \notin DOMAIN cases /\ resp.status \in {200, 404}
    /\ \A c \in DOMAIN cases : c < nextId.cases

(***************************************************************************)
(* Claims about the creation of a user by an admin.                        *)
(***************************************************************************)
PostAdminUsersEps == {"admin.create_user", "admin_api.admin_create_user"}

supplied(value) == value \notin {Absent, ""}

\* The users holding the e-mail and the role of a login request.
accounts(email, role) == {u \in DOMAIN users : users[u].email = email /\ users[u].role = role}

\* The answer the login contract prescribes for a request.
login_contract(email, password, role) ==
    IF ~(supplied(email) /\ supplied(password) /\ supplied(role)) THEN 400
    ELSE IF accounts(email, role) = {} THEN 404
    ELSE IF \A u \in accounts(email, role) :
                ~check_password_hash(users[u].password_hash, password) THEN 401
    ELSE 200

\* The answers of POST /api/login follow the contract.
login_follows_contract ==
    resp.ep = "login" =>
        /\ resp.status = login_contract(resp.fields[1], resp.fields[2], resp.fields[3])
        /\ resp.token # NoHeader <=> resp.status = 200

\* The user a registration has just stored can log in with what was sent.
registered_can_login ==
    (resp.ep \in RegisterEps /\ resp.status = 201) =>
        login_status([email |-> resp.fields[1], password |-> resp.fields[2],
                      role |-> users[resp.user].role]) = 200

\* C18: POST /api/login answers 200 with a token only when email, password
\* and role are supplied, a user with that email and role exists and the
\* password matches; otherwise 400, 404 or 401 in that precedence, without a
\* token; and a user registered with email E can log in with E.
C18_LoginContract == login_follows_contract /\ registered_can_login

(***************************************************************************)
(* Claims about a batch of evidence files.                                 *)
(***************************************************************************)
\* A step in which upload_evidence went through the files of a batch.
uploaded(r) == r.ep = "upload_evidence" /\ r.files # <<>>

too_large(files) == SelectSeq(files, LAMBDA file : file.size > MaxFileSize)

not_too_large(files) == SelectSeq(files, LAMBDA file : file.size <= MaxFileSize)

with_filename(files) == SelectSeq(files, LAMBDA file : file.filename # "")

filenames(entries) == [i \in 1..Len(entries) |-> entries[i].filename]

\* The outcome of a batch when each file of `files` is handled on its own:
\* one entry of errors for each file that is too large and nothing stored
\* for it, one entry of uploaded_files, one blob and one record for each
\* other file.
handled_one_by_one(files) ==
    /\ filenames(resp'.errors) = filenames(too_large(files))
    /\ filenames(resp'.uploaded_files) = filenames(not_too_large(files))
    /\ fs \subseteq fs'
    /\ Cardinality(fs' \ fs) = Len(not_too_large(files))
    /\ \A e \in DOMAIN evidence : e \in DOMAIN evidence' /\ evidence'[e] = evidence[e]
    /\ Cardinality(DOMAIN evidence' \ DOMAIN evidence) = Len(not_too_large(files))
    /\ \A e \in DOMAIN evidence' \ DOMAIN evidence :
          /\ evidence'[e].file_size <= MaxFileSize
          /\ evidence'[e].file_id \in fs' \ fs

\* C19 as stated: each file of a batch is handled on its own; a file larger
\* than 10 MiB gives exactly one entry of errors and neither a blob nor a
\* record, the other files are stored as if it were not there (so three
\* files with one too large give one error and two uploads, in any order).
C19_EachFileHandledAlone == [][uploaded(resp') => handled_one_by_one(resp'.files)]_vars

\* C19, amended: the same, for the files of the batch that have a filename;
\* a part without a filename is passed over whatever its size.
C19_EachNamedFileHandledAlone ==
    [][uploaded(resp') => handled_one_by_one(with_filename(resp'.files))]_vars

C19_Witness ==
    /\ uploaded(resp)
    /\ resp.files = <<File("a", 1), File("b", 1), File("c", 11)>>
    /\ Len(resp.errors) = 1
    /\ Len(resp.uploaded_files) = 2
    /\ Cardinality(DOMAIN evidence) = 2

\* The number of entries of a list that carry a filename.
count(entries, filename) == Cardinality({i \in 1..Len(entries) : entries[i].filename = filename})

\* The status is 201 when a file was uploaded and 400 otherwise.
status_follows_uploads == resp.status = IF resp.uploaded_files # <<>> THEN 201 ELSE 400

\* C20 as stated: every file of the batch is in exactly one of uploaded_files
\* and errors, and the status is 201 if and only if a file was uploaded, and
\* 400 otherwise.
C20_ResponseIsPartition ==
    uploaded(resp) =>
        /\ \A i \in 1..Len(resp.files) :
              count(resp.uploaded_files, resp.files[i].filename)
                + count(resp.errors, resp.files[i].filename)
                  = count(resp.files, resp.files[i].filename)
        /\ Len(resp.uploaded_files) + Len(resp.errors) = Len(resp.files)
        /\ status_follows_uploads

\* C20, amended: every file of the batch that has a filename is in exactly
\* one of uploaded_files and errors, and the status is 201 if and only if a
\* file was uploaded, and 400 otherwise.
C20_NamedFilesArePartitioned ==
    uploaded(resp) =>
        /\ \A i \in 1..Len(resp.files) :
              resp.files[i].filename # "" =>
                  count(resp.uploaded_files, resp.files[i].filename)
                    + count(resp.errors, resp.files[i].filename)
                      = count(resp.files, resp.files[i].filename)
        /\ Len(resp.uploaded_files) + Len(resp.errors) = Len(with_filename(resp.files))
        /\ status_follows_uploads

C20_Witness ==
    /\ uploaded(resp)
    /\ resp.status = 201
    /\ resp.uploaded_files # <<>>
    /\ resp.errors # <<>>

(***************************************************************************)
(* Claims about the parent of an evidence record.                          *)
(***************************************************************************)
\* C21: every evidence record has exactly one parent, a case or an FIR
\* (exactly one of case_id and fir_id is set), and an upload that names
\* neither is answered 400 and stores nothing.
C21_EvidenceHasOneParent ==
    \A e \in DOMAIN evidence : (evidence[e].case_id # 0) # (evidence[e].fir_id # 0)

(***************************************************************************)
(* Claims about a store that fails between the blob and the record.        *)
(***************************************************************************)
\* The files of a batch that reach fs.put, in the order of the batch.
put_files(files) == not_too_large(with_filename(files))

\* Whether insert_one raised for a file in the step that gave response r.
raised_for(r, file) == \E i \in DOMAIN r.fields : r.fields[i] = file.filename

\* The blobs that no evidence record refers to.
orphans(blobs, records) == {b \in blobs : \A e \in DOMAIN records : records[e].file_id # b}

\* C22: the blob of a file is written before its record; when the write of
\* the record fails after the blob was written, the blob stays in the blob
\* store, no record exists for it, the file is reported in errors, and the
\* other files of the batch are still processed.
C22_BlobStaysWhenRecordFails ==
    [][uploaded(resp') =>
        LET put == put_files(resp'.files)
            raised == SelectSeq(put, LAMBDA file : raised_for(resp', file))
            stored == SelectSeq(put, LAMBDA file : ~raised_for(resp', file))
            refused == SelectSeq(with_filename(resp'.files),
                                 LAMBDA file : file.size > MaxFileSize \/ raised_for(resp', file))
        IN /\ fs \subseteq fs'
           /\ Cardinality(fs' \ fs) = Len(put)
           /\ Cardinality(orphans(fs' \ fs, evidence')) = Len(raised)
           /\ Cardinality(DOMAIN evidence' \ DOMAIN evidence) = Len(stored)
           /\ \A e \in DOMAIN evidence' \ DOMAIN evidence : evidence'[e].file_id \in fs' \ fs
           /\ filenames(resp'.errors) = filenames(refused)
           /\ filenames(resp'.uploaded_files) = filenames(stored)]_vars

C22_Witness ==
    /\ uploaded(resp)
    /\ resp.files = <<File("a", 1), File("b", 1), File("c", 11)>>
    /\ resp.fields = <<"b">>
    /\ filenames(resp.uploaded_files) = <<"a">>
    /\ filenames(resp.errors) = <<"b", "c">>
    /\ orphans(fs, evidence) # {}

(***************************************************************************)
(* Claims about the citizen of a case.                                     *)
(***************************************************************************)
\* C23: a case that is inserted has a citizen_id that refers to a stored
\* user whose role is citizen, on every path that creates a case.
C23_NewCaseHasStoredCitizen ==
    [][\A c \in DOMAIN cases' \ DOMAIN cases :
          /\ cases'[c].citizen_id \in DOMAIN users
          /\ users[cases'[c].citizen_id].role = "citizen"]_vars

(***************************************************************************)
(* Claims about faults that leave a handler.                               *)
(***************************************************************************)
\* C24: no fault of the store or of decoding leaves a handler: every
\* request, one with a malformed id in its path included, is answered by
\* the handler itself, with an error field and 400, 401, 403, 404 or 500
\* when it is refused.
C24_NoFaultLeavesHandler == ~resp.unhandled

(***************************************************************************)
(* Claims about ids that resolve to no document.                           *)
(***************************************************************************)
\* The endpoints of the user routes that address a user by the id of the path.
UserByIdEps ==
    {"get_citizen_profile", "update_citizen_profile", "admin.get_user", "admin.update_user",
     "admin.delete_user"}

\* C25: a get, update or delete that addresses a record by a well-formed id
\* that resolves to no stored document is answered 404 (or refused before
\* the lookup with 400, 401 or 403), reports no success and creates no
\* document.
C25_UnknownIdIsNotFound ==
    [][(resp'.ep \in UserByIdEps /\ resp'.id \notin DOMAIN users) =>
           /\ resp'.status \in {400, 401, 403, 404}
           /\ UNCHANGED users]_vars

(***************************************************************************)
(* Claims about the validation of a registration.                          *)
(***************************************************************************)
\* The position of a field in the list of the required fields.
position(field) == CHOOSE i \in 1..Len(required) : required[i] = field

\* Whether a list names exactly the fields that a body lacks, in the order
\* of the required fields.
names_missing(fields, body) ==
    /\ \A k \in 1..Len(fields) : \E i \in 1..Len(required) : fields[k] = required[i]
    /\ \A i \in 1..Len(required) :
          (\E k \in 1..Len(fields) : fields[k] = required[i]) <=> ~supplied(body[i])
    /\ \A k \in 1..(Len(fields) - 1) : position(fields[k]) < position(fields[k + 1])

C27_FirDefaults ==
    [][(resp'.ep = "create_officer_fir" /\ resp'.status = 201 /\ resp'.body[2] = Absent) =>
           /\ officer_firs'[resp'.id].priority = "High"
           /\ officer_firs'[resp'.id].status = "Open"
           /\ has_role(ObjectId(officer_firs'[resp'.id].officer_id), "officer")]_vars

(***************************************************************************)
(* Claims about requests served between a check and a write.               *)
(***************************************************************************)
\* C28: the update of a case by an officer never writes to a case that is,
\* at the moment of the write, assigned to another officer, also when
\* another request changes the assignment or deletes the case between the
\* check and the write of update_case_status.
C28_WriteFollowsAssignment ==
    [][(inflight.ep = "update_case_status" /\ inflight' = NoRequest /\ inflight.id \in DOMAIN cases) =>
           ~assigned_to_other(cases[inflight.id], verify_token(inflight.hdr).user_id)]_vars

\* C29: every evidence record refers to a blob that is in the blob store, in
\* every reachable state, also while delete_evidence runs and while other
\* requests for the same evidence are served.
C29_RecordHasBlob == \A e \in DOMAIN evidence : evidence[e].file_id \in fs

(***************************************************************************)
(* Claims about what an update of an FIR changes.                          *)
(***************************************************************************)
FirUpdateEps == {"update_officer_fir", "admin.update_fir"}

\* The fields of an FIR that an update may change.
FirMutable == {"status", "priority", "officer_notes"}

====
